---- MODULE Spec2Model ----
(***************************************************************************)
(* OpenRTB 2.5 / Native 1.x data-interchange types (src/src/openrtb.rs,    *)
(* src/src/bid_request.rs, src/src/app.rs) and their serde JSON codecs.    *)
(*                                                                         *)
(* The repository is a schema plus three hand-written codecs (Bool,        *)
(* AuctionType in two revisions).  The model has                           *)
(*   - the wire side: JSON values (null, bool, integer, float, string,     *)
(*     array, object);                                                     *)
(*   - the typed side: Rust values of the declared field types;            *)
(*   - Deserialize/Serialize, which follow the derive attributes of every  *)
(*     struct and enum and the bodies of the hand-written impls;           *)
(*   - a state machine in which a caller decodes a wire value and          *)
(*     re-encodes the result, or encodes a value and decodes it again.     *)
(*                                                                         *)
(* JSON integers are unbounded on the wire while the carriers are u8, u32  *)
(* and i32.  A wire integer is kept as sign and two base-2^16 limbs so     *)
(* that values on both sides of 2^32 exist in the model.                   *)
(*                                                                         *)
(* Not represented: the order of the keys of a JSON object and repeated    *)
(* keys (an object is a function from keys to values), the text of error   *)
(* messages (an error carries its kind only; of several failing fields     *)
(* the first in declaration order is reported), and f64 values that are    *)
(* not finite or not multiples of one half.                                *)
(***************************************************************************)
EXTENDS Integers, Sequences, FiniteSets, TLC

VARIABLES ty, input, json, value, pc, steps, prevJson, prevValue, peer

vars ==
  <<ty, input, json, value, pc, steps, prevJson, prevValue, peer>>

----------------------------------------------------------------------------
(* Bounds of the exploration. *)

\* decode/encode steps a caller chains on one input
MaxSteps ==
  4

\* nesting depth down to which every field of an object is varied
SampleDepth ==
  2

\* nesting depth down to which a refused value is placed inside an object
ErrDepth ==
  3

\* the codecs of integer-coded types are fed every integer 0..MaxWireInt
\* (and the carriers' boundary values)
MaxWireInt ==
  520

----------------------------------------------------------------------------
(* Wire integers. *)

\* a wire integer is sign, high limb and low limb in base 2^16
Limb ==
  2^16

WInt(neg, hi, lo) ==
  [neg |-> neg, hi |-> hi, lo |-> lo]

\* a small non-negative integer 0 <= n < 2^16
W(n) ==
  WInt(FALSE, 0, n)

\* a small negative integer -n, 0 < n < 2^16
WNeg(n) ==
  WInt(TRUE, 0, n)

\* n fits the carrier u8: 0 <= n <= 255
FitsU8(w) ==
  ~w.neg /\ w.hi = 0 /\ w.lo <= 255

\* n fits the carrier u32: 0 <= n <= 2^32 - 1
FitsU32(w) ==
  ~w.neg /\ w.hi < Limb

\* n fits the carrier i32: -2^31 <= n <= 2^31 - 1
FitsI32(w) ==
  IF w.neg THEN 2 * w.hi < Limb \/ (2 * w.hi = Limb /\ w.lo = 0)
           ELSE 2 * w.hi < Limb

\* the i32 carried by a wire integer that fits
I32Of(w) ==
  IF w.neg THEN 0 - (w.hi * Limb + w.lo) ELSE w.hi * Limb + w.lo

\* the wire integer an i32 is written as
WOfI32(n) ==
  IF n < 0 THEN WInt(TRUE, (0 - n) \div Limb, (0 - n) % Limb)
           ELSE WInt(FALSE, n \div Limb, n % Limb)

\* the wire integer a u32 (kept as its two limbs) is written as
WOfU32(u) ==
  WInt(FALSE, u.hi, u.lo)

U32(hi, lo) ==
  [hi |-> hi, lo |-> lo]

\* the u32 carried by a wire integer that fits
U32Of(w) ==
  U32(w.hi, w.lo)

----------------------------------------------------------------------------
(* JSON values on the wire. *)

JNull ==
  [t |-> "null"]

JBool(b) ==
  [t |-> "bool", v |-> b]

JInt(w) ==
  [t |-> "int", v |-> w]

\* a number written with a fraction; x is sign, limbs and a half bit
JFloat(x) ==
  [t |-> "float", v |-> x]

JStr(s) ==
  [t |-> "str", v |-> s]

JArr(s) ==
  [t |-> "arr", v |-> s]

\* f maps each key of the object to its JSON value
JObj(f) ==
  [t |-> "obj", v |-> f]

HasKey(j, k) ==
  j.t = "obj" /\ k \in DOMAIN j.v

----------------------------------------------------------------------------
(* Typed values. *)

VString(s) ==
  [t |-> "String", v |-> s]

VI32(n) ==
  [t |-> "i32", v |-> n]

\* a finite f64: sign, integer limbs and a half bit
F64(neg, hi, lo, half) ==
  [neg |-> neg, hi |-> hi, lo |-> lo, half |-> half]

VF64(x) ==
  [t |-> "f64", v |-> x]

True ==
  [t |-> "Bool", v |-> "True"]

False ==
  [t |-> "Bool", v |-> "False"]

FirstPrice ==
  [t |-> "AuctionType", v |-> "FirstPrice"]

SecondPrice ==
  [t |-> "AuctionType", v |-> "SecondPrice"]

FixedPrice(u) ==
  [t |-> "AuctionType", v |-> "FixedPrice", n |-> u]

flat_FirstPrice ==
  [t |-> "flat::AuctionType", v |-> "FirstPrice"]

flat_SecondPricePlus ==
  [t |-> "flat::AuctionType", v |-> "SecondPricePlus"]

flat_ExchangeSpecific(u) ==
  [t |-> "flat::AuctionType", v |-> "ExchangeSpecific", n |-> u]

\* a constant of a closed vocabulary
VEnum(e, c) ==
  [t |-> "Enum", enum |-> e, v |-> c]

\* serde_json::Value: the JSON tree itself
VValue(j) ==
  [t |-> "Value", v |-> j]

None ==
  [t |-> "None"]

Some(x) ==
  [t |-> "Some", v |-> x]

VVec(s) ==
  [t |-> "Vec", v |-> s]

\* f maps every declared field name to the field's value
VStruct(name, f) ==
  [t |-> "Struct", name |-> name, v |-> f]

Ok(x) ==
  [t |-> "Ok", v |-> x]

Err(kind) ==
  [t |-> "Err", v |-> kind]

IsOk(r) ==
  r.t = "Ok"

Nil ==
  [t |-> "Nil"]

----------------------------------------------------------------------------
(* Declared field types. *)

TString ==
  [k |-> "String"]

TI32 ==
  [k |-> "i32"]

TF64 ==
  [k |-> "f64"]

TBool ==
  [k |-> "Bool"]

TAuctionType ==
  [k |-> "AuctionType"]

TFlatAuctionType ==
  [k |-> "flat::AuctionType"]

TValue ==
  [k |-> "Value"]

TEnum(e) ==
  [k |-> "Enum", name |-> e]

TStruct(s) ==
  [k |-> "Struct", name |-> s]

TOption(of) ==
  [k |-> "Option", of |-> of]

TVec(of) ==
  [k |-> "Vec", of |-> of]

Fld(name, fty, skip) ==
  [name |-> name, ty |-> fty, skip |-> skip]

----------------------------------------------------------------------------
(* The schema. *)

(* Closed vocabularies: #[repr(i32)] enums deriving Serialize_repr and
   Deserialize_repr; each entry is a constant, its declared discriminant and
   the display name as_str_name returns for it. *)

ContentCategory ==
  {[name |-> "Undefined", value |-> 0, display |-> "UNDEFINED"],
  [name |-> "Iab1", value |-> 1, display |-> "IAB1"],
  [name |-> "Iab1_1", value |-> 2, display |-> "IAB1-1"],
  [name |-> "Iab1_2", value |-> 3, display |-> "IAB1-2"],
  [name |-> "Iab1_3", value |-> 4, display |-> "IAB1-3"],
  [name |-> "Iab1_4", value |-> 5, display |-> "IAB1-4"],
  [name |-> "Iab1_5", value |-> 6, display |-> "IAB1-5"],
  [name |-> "Iab1_6", value |-> 7, display |-> "IAB1-6"],
  [name |-> "Iab1_7", value |-> 8, display |-> "IAB1-7"],
  [name |-> "Iab2", value |-> 9, display |-> "IAB2"],
  [name |-> "Iab2_1", value |-> 10, display |-> "IAB2-1"],
  [name |-> "Iab2_2", value |-> 11, display |-> "IAB2-2"],
  [name |-> "Iab2_3", value |-> 12, display |-> "IAB2-3"],
  [name |-> "Iab2_4", value |-> 13, display |-> "IAB2-4"],
  [name |-> "Iab2_5", value |-> 14, display |-> "IAB2-5"],
  [name |-> "Iab2_6", value |-> 15, display |-> "IAB2-6"],
  [name |-> "Iab2_7", value |-> 16, display |-> "IAB2-7"],
  [name |-> "Iab2_8", value |-> 17, display |-> "IAB2-8"],
  [name |-> "Iab2_9", value |-> 18, display |-> "IAB2-9"],
  [name |-> "Iab2_10", value |-> 19, display |-> "IAB2-10"],
  [name |-> "Iab2_11", value |-> 20, display |-> "IAB2-11"],
  [name |-> "Iab2_12", value |-> 21, display |-> "IAB2-12"],
  [name |-> "Iab2_13", value |-> 22, display |-> "IAB2-13"],
  [name |-> "Iab2_14", value |-> 23, display |-> "IAB2-14"],
  [name |-> "Iab2_15", value |-> 24, display |-> "IAB2-15"],
  [name |-> "Iab2_16", value |-> 25, display |-> "IAB2-16"],
  [name |-> "Iab2_17", value |-> 26, display |-> "IAB2-17"],
  [name |-> "Iab2_18", value |-> 27, display |-> "IAB2-18"],
  [name |-> "Iab2_19", value |-> 28, display |-> "IAB2-19"],
  [name |-> "Iab2_20", value |-> 29, display |-> "IAB2-20"],
  [name |-> "Iab2_21", value |-> 30, display |-> "IAB2-21"],
  [name |-> "Iab2_22", value |-> 31, display |-> "IAB2-22"],
  [name |-> "Iab2_23", value |-> 32, display |-> "IAB2-23"],
  [name |-> "Iab3", value |-> 33, display |-> "IAB3"],
  [name |-> "Iab3_1", value |-> 34, display |-> "IAB3-1"],
  [name |-> "Iab3_2", value |-> 35, display |-> "IAB3-2"],
  [name |-> "Iab3_3", value |-> 36, display |-> "IAB3-3"],
  [name |-> "Iab3_4", value |-> 37, display |-> "IAB3-4"],
  [name |-> "Iab3_5", value |-> 38, display |-> "IAB3-5"],
  [name |-> "Iab3_6", value |-> 39, display |-> "IAB3-6"],
  [name |-> "Iab3_7", value |-> 40, display |-> "IAB3-7"],
  [name |-> "Iab3_8", value |-> 41, display |-> "IAB3-8"],
  [name |-> "Iab3_9", value |-> 42, display |-> "IAB3-9"],
  [name |-> "Iab3_10", value |-> 43, display |-> "IAB3-10"],
  [name |-> "Iab3_11", value |-> 44, display |-> "IAB3-11"],
  [name |-> "Iab3_12", value |-> 45, display |-> "IAB3-12"],
  [name |-> "Iab4", value |-> 46, display |-> "IAB4"],
  [name |-> "Iab4_1", value |-> 47, display |-> "IAB4-1"],
  [name |-> "Iab4_2", value |-> 48, display |-> "IAB4-2"],
  [name |-> "Iab4_3", value |-> 49, display |-> "IAB4-3"],
  [name |-> "Iab4_4", value |-> 50, display |-> "IAB4-4"],
  [name |-> "Iab4_5", value |-> 51, display |-> "IAB4-5"],
  [name |-> "Iab4_6", value |-> 52, display |-> "IAB4-6"],
  [name |-> "Iab4_7", value |-> 53, display |-> "IAB4-7"],
  [name |-> "Iab4_8", value |-> 54, display |-> "IAB4-8"],
  [name |-> "Iab4_9", value |-> 55, display |-> "IAB4-9"],
  [name |-> "Iab4_10", value |-> 56, display |-> "IAB4-10"],
  [name |-> "Iab4_11", value |-> 57, display |-> "IAB4-11"],
  [name |-> "Iab5", value |-> 58, display |-> "IAB5"],
  [name |-> "Iab5_1", value |-> 59, display |-> "IAB5-1"],
  [name |-> "Iab5_2", value |-> 60, display |-> "IAB5-2"],
  [name |-> "Iab5_3", value |-> 61, display |-> "IAB5-3"],
  [name |-> "Iab5_4", value |-> 62, display |-> "IAB5-4"],
  [name |-> "Iab5_5", value |-> 63, display |-> "IAB5-5"],
  [name |-> "Iab5_6", value |-> 64, display |-> "IAB5-6"],
  [name |-> "Iab5_7", value |-> 65, display |-> "IAB5-7"],
  [name |-> "Iab5_8", value |-> 66, display |-> "IAB5-8"],
  [name |-> "Iab5_9", value |-> 67, display |-> "IAB5-9"],
  [name |-> "Iab5_10", value |-> 68, display |-> "IAB5-10"],
  [name |-> "Iab5_11", value |-> 69, display |-> "IAB5-11"],
  [name |-> "Iab5_12", value |-> 70, display |-> "IAB5-12"],
  [name |-> "Iab5_13", value |-> 71, display |-> "IAB5-13"],
  [name |-> "Iab5_14", value |-> 72, display |-> "IAB5-14"],
  [name |-> "Iab5_15", value |-> 73, display |-> "IAB5-15"],
  [name |-> "Iab6", value |-> 74, display |-> "IAB6"],
  [name |-> "Iab6_1", value |-> 75, display |-> "IAB6-1"],
  [name |-> "Iab6_2", value |-> 76, display |-> "IAB6-2"],
  [name |-> "Iab6_3", value |-> 77, display |-> "IAB6-3"],
  [name |-> "Iab6_4", value |-> 78, display |-> "IAB6-4"],
  [name |-> "Iab6_5", value |-> 79, display |-> "IAB6-5"],
  [name |-> "Iab6_6", value |-> 80, display |-> "IAB6-6"],
  [name |-> "Iab6_7", value |-> 81, display |-> "IAB6-7"],
  [name |-> "Iab6_8", value |-> 82, display |-> "IAB6-8"],
  [name |-> "Iab6_9", value |-> 83, display |-> "IAB6-9"],
  [name |-> "Iab7", value |-> 84, display |-> "IAB7"],
  [name |-> "Iab7_1", value |-> 85, display |-> "IAB7-1"],
  [name |-> "Iab7_2", value |-> 86, display |-> "IAB7-2"],
  [name |-> "Iab7_3", value |-> 87, display |-> "IAB7-3"],
  [name |-> "Iab7_4", value |-> 88, display |-> "IAB7-4"],
  [name |-> "Iab7_5", value |-> 89, display |-> "IAB7-5"],
  [name |-> "Iab7_6", value |-> 90, display |-> "IAB7-6"],
  [name |-> "Iab7_7", value |-> 91, display |-> "IAB7-7"],
  [name |-> "Iab7_8", value |-> 92, display |-> "IAB7-8"],
  [name |-> "Iab7_9", value |-> 93, display |-> "IAB7-9"],
  [name |-> "Iab7_10", value |-> 94, display |-> "IAB7-10"],
  [name |-> "Iab7_11", value |-> 95, display |-> "IAB7-11"],
  [name |-> "Iab7_12", value |-> 96, display |-> "IAB7-12"],
  [name |-> "Iab7_13", value |-> 97, display |-> "IAB7-13"],
  [name |-> "Iab7_14", value |-> 98, display |-> "IAB7-14"],
  [name |-> "Iab7_15", value |-> 99, display |-> "IAB7-15"],
  [name |-> "Iab7_16", value |-> 100, display |-> "IAB7-16"],
  [name |-> "Iab7_17", value |-> 101, display |-> "IAB7-17"],
  [name |-> "Iab7_18", value |-> 102, display |-> "IAB7-18"],
  [name |-> "Iab7_19", value |-> 103, display |-> "IAB7-19"],
  [name |-> "Iab7_20", value |-> 104, display |-> "IAB7-20"],
  [name |-> "Iab7_21", value |-> 105, display |-> "IAB7-21"],
  [name |-> "Iab7_22", value |-> 106, display |-> "IAB7-22"],
  [name |-> "Iab7_23", value |-> 107, display |-> "IAB7-23"],
  [name |-> "Iab7_24", value |-> 108, display |-> "IAB7-24"],
  [name |-> "Iab7_25", value |-> 109, display |-> "IAB7-25"],
  [name |-> "Iab7_26", value |-> 110, display |-> "IAB7-26"],
  [name |-> "Iab7_27", value |-> 111, display |-> "IAB7-27"],
  [name |-> "Iab7_28", value |-> 112, display |-> "IAB7-28"],
  [name |-> "Iab7_29", value |-> 113, display |-> "IAB7-29"],
  [name |-> "Iab7_30", value |-> 114, display |-> "IAB7-30"],
  [name |-> "Iab7_31", value |-> 115, display |-> "IAB7-31"],
  [name |-> "Iab7_32", value |-> 116, display |-> "IAB7-32"],
  [name |-> "Iab7_33", value |-> 117, display |-> "IAB7-33"],
  [name |-> "Iab7_34", value |-> 118, display |-> "IAB7-34"],
  [name |-> "Iab7_35", value |-> 119, display |-> "IAB7-35"],
  [name |-> "Iab7_36", value |-> 120, display |-> "IAB7-36"],
  [name |-> "Iab7_37", value |-> 121, display |-> "IAB7-37"],
  [name |-> "Iab7_38", value |-> 122, display |-> "IAB7-38"],
  [name |-> "Iab7_39", value |-> 123, display |-> "IAB7-39"],
  [name |-> "Iab7_40", value |-> 124, display |-> "IAB7-40"],
  [name |-> "Iab7_41", value |-> 125, display |-> "IAB7-41"],
  [name |-> "Iab7_42", value |-> 126, display |-> "IAB7-42"],
  [name |-> "Iab7_43", value |-> 127, display |-> "IAB7-43"],
  [name |-> "Iab7_44", value |-> 128, display |-> "IAB7-44"],
  [name |-> "Iab7_45", value |-> 129, display |-> "IAB7-45"],
  [name |-> "Iab8", value |-> 130, display |-> "IAB8"],
  [name |-> "Iab8_1", value |-> 131, display |-> "IAB8-1"],
  [name |-> "Iab8_2", value |-> 132, display |-> "IAB8-2"],
  [name |-> "Iab8_3", value |-> 133, display |-> "IAB8-3"],
  [name |-> "Iab8_4", value |-> 134, display |-> "IAB8-4"],
  [name |-> "Iab8_5", value |-> 135, display |-> "IAB8-5"],
  [name |-> "Iab8_6", value |-> 136, display |-> "IAB8-6"],
  [name |-> "Iab8_7", value |-> 137, display |-> "IAB8-7"],
  [name |-> "Iab8_8", value |-> 138, display |-> "IAB8-8"],
  [name |-> "Iab8_9", value |-> 139, display |-> "IAB8-9"],
  [name |-> "Iab8_10", value |-> 140, display |-> "IAB8-10"],
  [name |-> "Iab8_11", value |-> 141, display |-> "IAB8-11"],
  [name |-> "Iab8_12", value |-> 142, display |-> "IAB8-12"],
  [name |-> "Iab8_13", value |-> 143, display |-> "IAB8-13"],
  [name |-> "Iab8_14", value |-> 144, display |-> "IAB8-14"],
  [name |-> "Iab8_15", value |-> 145, display |-> "IAB8-15"],
  [name |-> "Iab8_16", value |-> 146, display |-> "IAB8-16"],
  [name |-> "Iab8_17", value |-> 147, display |-> "IAB8-17"],
  [name |-> "Iab8_18", value |-> 148, display |-> "IAB8-18"],
  [name |-> "Iab9", value |-> 149, display |-> "IAB9"],
  [name |-> "Iab9_1", value |-> 150, display |-> "IAB9-1"],
  [name |-> "Iab9_2", value |-> 151, display |-> "IAB9-2"],
  [name |-> "Iab9_3", value |-> 152, display |-> "IAB9-3"],
  [name |-> "Iab9_4", value |-> 153, display |-> "IAB9-4"],
  [name |-> "Iab9_5", value |-> 154, display |-> "IAB9-5"],
  [name |-> "Iab9_6", value |-> 155, display |-> "IAB9-6"],
  [name |-> "Iab9_7", value |-> 156, display |-> "IAB9-7"],
  [name |-> "Iab9_8", value |-> 157, display |-> "IAB9-8"],
  [name |-> "Iab9_9", value |-> 158, display |-> "IAB9-9"],
  [name |-> "Iab9_10", value |-> 159, display |-> "IAB9-10"],
  [name |-> "Iab9_11", value |-> 160, display |-> "IAB9-11"],
  [name |-> "Iab9_12", value |-> 161, display |-> "IAB9-12"],
  [name |-> "Iab9_13", value |-> 162, display |-> "IAB9-13"],
  [name |-> "Iab9_14", value |-> 163, display |-> "IAB9-14"],
  [name |-> "Iab9_15", value |-> 164, display |-> "IAB9-15"],
  [name |-> "Iab9_16", value |-> 165, display |-> "IAB9-16"],
  [name |-> "Iab9_17", value |-> 166, display |-> "IAB9-17"],
  [name |-> "Iab9_18", value |-> 167, display |-> "IAB9-18"],
  [name |-> "Iab9_19", value |-> 168, display |-> "IAB9-19"],
  [name |-> "Iab9_20", value |-> 169, display |-> "IAB9-20"],
  [name |-> "Iab9_21", value |-> 170, display |-> "IAB9-21"],
  [name |-> "Iab9_22", value |-> 171, display |-> "IAB9-22"],
  [name |-> "Iab9_23", value |-> 172, display |-> "IAB9-23"],
  [name |-> "Iab9_24", value |-> 173, display |-> "IAB9-24"],
  [name |-> "Iab9_25", value |-> 174, display |-> "IAB9-25"],
  [name |-> "Iab9_26", value |-> 175, display |-> "IAB9-26"],
  [name |-> "Iab9_27", value |-> 176, display |-> "IAB9-27"],
  [name |-> "Iab9_28", value |-> 177, display |-> "IAB9-28"],
  [name |-> "Iab9_29", value |-> 178, display |-> "IAB9-29"],
  [name |-> "Iab9_30", value |-> 179, display |-> "IAB9-30"],
  [name |-> "Iab9_31", value |-> 180, display |-> "IAB9-31"],
  [name |-> "Iab10", value |-> 181, display |-> "IAB10"],
  [name |-> "Iab10_1", value |-> 182, display |-> "IAB10-1"],
  [name |-> "Iab10_2", value |-> 183, display |-> "IAB10-2"],
  [name |-> "Iab10_3", value |-> 184, display |-> "IAB10-3"],
  [name |-> "Iab10_4", value |-> 185, display |-> "IAB10-4"],
  [name |-> "Iab10_5", value |-> 186, display |-> "IAB10-5"],
  [name |-> "Iab10_6", value |-> 187, display |-> "IAB10-6"],
  [name |-> "Iab10_7", value |-> 188, display |-> "IAB10-7"],
  [name |-> "Iab10_8", value |-> 189, display |-> "IAB10-8"],
  [name |-> "Iab10_9", value |-> 190, display |-> "IAB10-9"],
  [name |-> "Iab11", value |-> 191, display |-> "IAB11"],
  [name |-> "Iab11_1", value |-> 192, display |-> "IAB11-1"],
  [name |-> "Iab11_2", value |-> 193, display |-> "IAB11-2"],
  [name |-> "Iab11_3", value |-> 194, display |-> "IAB11-3"],
  [name |-> "Iab11_4", value |-> 195, display |-> "IAB11-4"],
  [name |-> "Iab11_5", value |-> 196, display |-> "IAB11-5"],
  [name |-> "Iab12", value |-> 197, display |-> "IAB12"],
  [name |-> "Iab12_1", value |-> 198, display |-> "IAB12-1"],
  [name |-> "Iab12_2", value |-> 199, display |-> "IAB12-2"],
  [name |-> "Iab12_3", value |-> 200, display |-> "IAB12-3"],
  [name |-> "Iab13", value |-> 201, display |-> "IAB13"],
  [name |-> "Iab13_1", value |-> 202, display |-> "IAB13-1"],
  [name |-> "Iab13_2", value |-> 203, display |-> "IAB13-2"],
  [name |-> "Iab13_3", value |-> 204, display |-> "IAB13-3"],
  [name |-> "Iab13_4", value |-> 205, display |-> "IAB13-4"],
  [name |-> "Iab13_5", value |-> 206, display |-> "IAB13-5"],
  [name |-> "Iab13_6", value |-> 207, display |-> "IAB13-6"],
  [name |-> "Iab13_7", value |-> 208, display |-> "IAB13-7"],
  [name |-> "Iab13_8", value |-> 209, display |-> "IAB13-8"],
  [name |-> "Iab13_9", value |-> 210, display |-> "IAB13-9"],
  [name |-> "Iab13_10", value |-> 211, display |-> "IAB13-10"],
  [name |-> "Iab13_11", value |-> 212, display |-> "IAB13-11"],
  [name |-> "Iab13_12", value |-> 213, display |-> "IAB13-12"],
  [name |-> "Iab14", value |-> 214, display |-> "IAB14"],
  [name |-> "Iab14_1", value |-> 215, display |-> "IAB14-1"],
  [name |-> "Iab14_2", value |-> 216, display |-> "IAB14-2"],
  [name |-> "Iab14_3", value |-> 217, display |-> "IAB14-3"],
  [name |-> "Iab14_4", value |-> 218, display |-> "IAB14-4"],
  [name |-> "Iab14_5", value |-> 219, display |-> "IAB14-5"],
  [name |-> "Iab14_6", value |-> 220, display |-> "IAB14-6"],
  [name |-> "Iab14_7", value |-> 221, display |-> "IAB14-7"],
  [name |-> "Iab14_8", value |-> 222, display |-> "IAB14-8"],
  [name |-> "Iab15", value |-> 223, display |-> "IAB15"],
  [name |-> "Iab15_1", value |-> 224, display |-> "IAB15-1"],
  [name |-> "Iab15_2", value |-> 225, display |-> "IAB15-2"],
  [name |-> "Iab15_3", value |-> 226, display |-> "IAB15-3"],
  [name |-> "Iab15_4", value |-> 227, display |-> "IAB15-4"],
  [name |-> "Iab15_5", value |-> 228, display |-> "IAB15-5"],
  [name |-> "Iab15_6", value |-> 229, display |-> "IAB15-6"],
  [name |-> "Iab15_7", value |-> 230, display |-> "IAB15-7"],
  [name |-> "Iab15_8", value |-> 231, display |-> "IAB15-8"],
  [name |-> "Iab15_9", value |-> 232, display |-> "IAB15-9"],
  [name |-> "Iab15_10", value |-> 233, display |-> "IAB15-10"],
  [name |-> "Iab16", value |-> 234, display |-> "IAB16"],
  [name |-> "Iab16_1", value |-> 235, display |-> "IAB16-1"],
  [name |-> "Iab16_2", value |-> 236, display |-> "IAB16-2"],
  [name |-> "Iab16_3", value |-> 237, display |-> "IAB16-3"],
  [name |-> "Iab16_4", value |-> 238, display |-> "IAB16-4"],
  [name |-> "Iab16_5", value |-> 239, display |-> "IAB16-5"],
  [name |-> "Iab16_6", value |-> 240, display |-> "IAB16-6"],
  [name |-> "Iab16_7", value |-> 241, display |-> "IAB16-7"],
  [name |-> "Iab17", value |-> 242, display |-> "IAB17"],
  [name |-> "Iab17_1", value |-> 243, display |-> "IAB17-1"],
  [name |-> "Iab17_2", value |-> 244, display |-> "IAB17-2"],
  [name |-> "Iab17_3", value |-> 245, display |-> "IAB17-3"],
  [name |-> "Iab17_4", value |-> 246, display |-> "IAB17-4"],
  [name |-> "Iab17_5", value |-> 247, display |-> "IAB17-5"],
  [name |-> "Iab17_6", value |-> 248, display |-> "IAB17-6"],
  [name |-> "Iab17_7", value |-> 249, display |-> "IAB17-7"],
  [name |-> "Iab17_8", value |-> 250, display |-> "IAB17-8"],
  [name |-> "Iab17_9", value |-> 251, display |-> "IAB17-9"],
  [name |-> "Iab17_10", value |-> 252, display |-> "IAB17-10"],
  [name |-> "Iab17_11", value |-> 253, display |-> "IAB17-11"],
  [name |-> "Iab17_12", value |-> 254, display |-> "IAB17-12"],
  [name |-> "Iab17_13", value |-> 255, display |-> "IAB17-13"],
  [name |-> "Iab17_14", value |-> 256, display |-> "IAB17-14"],
  [name |-> "Iab17_15", value |-> 257, display |-> "IAB17-15"],
  [name |-> "Iab17_16", value |-> 258, display |-> "IAB17-16"],
  [name |-> "Iab17_17", value |-> 259, display |-> "IAB17-17"],
  [name |-> "Iab17_18", value |-> 260, display |-> "IAB17-18"],
  [name |-> "Iab17_19", value |-> 261, display |-> "IAB17-19"],
  [name |-> "Iab17_20", value |-> 262, display |-> "IAB17-20"],
  [name |-> "Iab17_21", value |-> 263, display |-> "IAB17-21"],
  [name |-> "Iab17_22", value |-> 264, display |-> "IAB17-22"],
  [name |-> "Iab17_23", value |-> 265, display |-> "IAB17-23"],
  [name |-> "Iab17_24", value |-> 266, display |-> "IAB17-24"],
  [name |-> "Iab17_25", value |-> 267, display |-> "IAB17-25"],
  [name |-> "Iab17_26", value |-> 268, display |-> "IAB17-26"],
  [name |-> "Iab17_27", value |-> 269, display |-> "IAB17-27"],
  [name |-> "Iab17_28", value |-> 270, display |-> "IAB17-28"],
  [name |-> "Iab17_29", value |-> 271, display |-> "IAB17-29"],
  [name |-> "Iab17_30", value |-> 272, display |-> "IAB17-30"],
  [name |-> "Iab17_31", value |-> 273, display |-> "IAB17-31"],
  [name |-> "Iab17_32", value |-> 274, display |-> "IAB17-32"],
  [name |-> "Iab17_33", value |-> 275, display |-> "IAB17-33"],
  [name |-> "Iab17_34", value |-> 276, display |-> "IAB17-34"],
  [name |-> "Iab17_35", value |-> 277, display |-> "IAB17-35"],
  [name |-> "Iab17_36", value |-> 278, display |-> "IAB17-36"],
  [name |-> "Iab17_37", value |-> 279, display |-> "IAB17-37"],
  [name |-> "Iab17_38", value |-> 280, display |-> "IAB17-38"],
  [name |-> "Iab17_39", value |-> 281, display |-> "IAB17-39"],
  [name |-> "Iab17_40", value |-> 282, display |-> "IAB17-40"],
  [name |-> "Iab17_41", value |-> 283, display |-> "IAB17-41"],
  [name |-> "Iab17_42", value |-> 284, display |-> "IAB17-42"],
  [name |-> "Iab17_43", value |-> 285, display |-> "IAB17-43"],
  [name |-> "Iab17_44", value |-> 286, display |-> "IAB17-44"],
  [name |-> "Iab18", value |-> 287, display |-> "IAB18"],
  [name |-> "Iab18_1", value |-> 288, display |-> "IAB18-1"],
  [name |-> "Iab18_2", value |-> 289, display |-> "IAB18-2"],
  [name |-> "Iab18_3", value |-> 290, display |-> "IAB18-3"],
  [name |-> "Iab18_4", value |-> 291, display |-> "IAB18-4"],
  [name |-> "Iab18_5", value |-> 292, display |-> "IAB18-5"],
  [name |-> "Iab18_6", value |-> 293, display |-> "IAB18-6"],
  [name |-> "Iab19", value |-> 294, display |-> "IAB19"],
  [name |-> "Iab19_1", value |-> 295, display |-> "IAB19-1"],
  [name |-> "Iab19_2", value |-> 296, display |-> "IAB19-2"],
  [name |-> "Iab19_3", value |-> 297, display |-> "IAB19-3"],
  [name |-> "Iab19_4", value |-> 298, display |-> "IAB19-4"],
  [name |-> "Iab19_5", value |-> 299, display |-> "IAB19-5"],
  [name |-> "Iab19_6", value |-> 300, display |-> "IAB19-6"],
  [name |-> "Iab19_7", value |-> 301, display |-> "IAB19-7"],
  [name |-> "Iab19_8", value |-> 302, display |-> "IAB19-8"],
  [name |-> "Iab19_9", value |-> 303, display |-> "IAB19-9"],
  [name |-> "Iab19_10", value |-> 304, display |-> "IAB19-10"],
  [name |-> "Iab19_11", value |-> 305, display |-> "IAB19-11"],
  [name |-> "Iab19_12", value |-> 306, display |-> "IAB19-12"],
  [name |-> "Iab19_13", value |-> 307, display |-> "IAB19-13"],
  [name |-> "Iab19_14", value |-> 308, display |-> "IAB19-14"],
  [name |-> "Iab19_15", value |-> 309, display |-> "IAB19-15"],
  [name |-> "Iab19_16", value |-> 310, display |-> "IAB19-16"],
  [name |-> "Iab19_17", value |-> 311, display |-> "IAB19-17"],
  [name |-> "Iab19_18", value |-> 312, display |-> "IAB19-18"],
  [name |-> "Iab19_19", value |-> 313, display |-> "IAB19-19"],
  [name |-> "Iab19_20", value |-> 314, display |-> "IAB19-20"],
  [name |-> "Iab19_21", value |-> 315, display |-> "IAB19-21"],
  [name |-> "Iab19_22", value |-> 316, display |-> "IAB19-22"],
  [name |-> "Iab19_23", value |-> 317, display |-> "IAB19-23"],
  [name |-> "Iab19_24", value |-> 318, display |-> "IAB19-24"],
  [name |-> "Iab19_25", value |-> 319, display |-> "IAB19-25"],
  [name |-> "Iab19_26", value |-> 320, display |-> "IAB19-26"],
  [name |-> "Iab19_27", value |-> 321, display |-> "IAB19-27"],
  [name |-> "Iab19_28", value |-> 322, display |-> "IAB19-28"],
  [name |-> "Iab19_29", value |-> 323, display |-> "IAB19-29"],
  [name |-> "Iab19_30", value |-> 324, display |-> "IAB19-30"],
  [name |-> "Iab19_31", value |-> 325, display |-> "IAB19-31"],
  [name |-> "Iab19_32", value |-> 326, display |-> "IAB19-32"],
  [name |-> "Iab19_33", value |-> 327, display |-> "IAB19-33"],
  [name |-> "Iab19_34", value |-> 328, display |-> "IAB19-34"],
  [name |-> "Iab19_35", value |-> 329, display |-> "IAB19-35"],
  [name |-> "Iab19_36", value |-> 330, display |-> "IAB19-36"],
  [name |-> "Iab20", value |-> 331, display |-> "IAB20"],
  [name |-> "Iab20_1", value |-> 332, display |-> "IAB20-1"],
  [name |-> "Iab20_2", value |-> 333, display |-> "IAB20-2"],
  [name |-> "Iab20_3", value |-> 334, display |-> "IAB20-3"],
  [name |-> "Iab20_4", value |-> 335, display |-> "IAB20-4"],
  [name |-> "Iab20_5", value |-> 336, display |-> "IAB20-5"],
  [name |-> "Iab20_6", value |-> 337, display |-> "IAB20-6"],
  [name |-> "Iab20_7", value |-> 338, display |-> "IAB20-7"],
  [name |-> "Iab20_8", value |-> 339, display |-> "IAB20-8"],
  [name |-> "Iab20_9", value |-> 340, display |-> "IAB20-9"],
  [name |-> "Iab20_10", value |-> 341, display |-> "IAB20-10"],
  [name |-> "Iab20_11", value |-> 342, display |-> "IAB20-11"],
  [name |-> "Iab20_12", value |-> 343, display |-> "IAB20-12"],
  [name |-> "Iab20_13", value |-> 344, display |-> "IAB20-13"],
  [name |-> "Iab20_14", value |-> 345, display |-> "IAB20-14"],
  [name |-> "Iab20_15", value |-> 346, display |-> "IAB20-15"],
  [name |-> "Iab20_16", value |-> 347, display |-> "IAB20-16"],
  [name |-> "Iab20_17", value |-> 348, display |-> "IAB20-17"],
  [name |-> "Iab20_18", value |-> 349, display |-> "IAB20-18"],
  [name |-> "Iab20_19", value |-> 350, display |-> "IAB20-19"],
  [name |-> "Iab20_20", value |-> 351, display |-> "IAB20-20"],
  [name |-> "Iab20_21", value |-> 352, display |-> "IAB20-21"],
  [name |-> "Iab20_22", value |-> 353, display |-> "IAB20-22"],
  [name |-> "Iab20_23", value |-> 354, display |-> "IAB20-23"],
  [name |-> "Iab20_24", value |-> 355, display |-> "IAB20-24"],
  [name |-> "Iab20_25", value |-> 356, display |-> "IAB20-25"],
  [name |-> "Iab20_26", value |-> 357, display |-> "IAB20-26"],
  [name |-> "Iab20_27", value |-> 358, display |-> "IAB20-27"],
  [name |-> "Iab21", value |-> 359, display |-> "IAB21"],
  [name |-> "Iab21_1x", value |-> 360, display |-> "IAB21-1"],
  [name |-> "Iab21_2x", value |-> 361, display |-> "IAB21-2"],
  [name |-> "Iab21_3x", value |-> 362, display |-> "IAB21-3"],
  [name |-> "Iab22", value |-> 363, display |-> "IAB22"],
  [name |-> "Iab22_1x", value |-> 364, display |-> "IAB22-1"],
  [name |-> "Iab22_2x", value |-> 365, display |-> "IAB22-2"],
  [name |-> "Iab22_3x", value |-> 366, display |-> "IAB22-3"],
  [name |-> "Iab22_4", value |-> 367, display |-> "IAB22-4"],
  [name |-> "Iab23", value |-> 368, display |-> "IAB23"],
  [name |-> "Iab23_1", value |-> 369, display |-> "IAB23-1"],
  [name |-> "Iab23_2", value |-> 370, display |-> "IAB23-2"],
  [name |-> "Iab23_3", value |-> 371, display |-> "IAB23-3"],
  [name |-> "Iab23_4", value |-> 372, display |-> "IAB23-4"],
  [name |-> "Iab23_5", value |-> 373, display |-> "IAB23-5"],
  [name |-> "Iab23_6", value |-> 374, display |-> "IAB23-6"],
  [name |-> "Iab23_7", value |-> 375, display |-> "IAB23-7"],
  [name |-> "Iab23_8", value |-> 376, display |-> "IAB23-8"],
  [name |-> "Iab23_9", value |-> 377, display |-> "IAB23-9"],
  [name |-> "Iab23_10", value |-> 378, display |-> "IAB23-10"],
  [name |-> "Iab24", value |-> 379, display |-> "IAB24"],
  [name |-> "Iab25", value |-> 380, display |-> "IAB25"],
  [name |-> "Iab25_1", value |-> 381, display |-> "IAB25-1"],
  [name |-> "Iab25_2", value |-> 382, display |-> "IAB25-2"],
  [name |-> "Iab25_3", value |-> 383, display |-> "IAB25-3"],
  [name |-> "Iab25_4", value |-> 384, display |-> "IAB25-4"],
  [name |-> "Iab25_5", value |-> 385, display |-> "IAB25-5"],
  [name |-> "Iab25_6", value |-> 386, display |-> "IAB25-6"],
  [name |-> "Iab25_7", value |-> 387, display |-> "IAB25-7"],
  [name |-> "Iab26", value |-> 388, display |-> "IAB26"],
  [name |-> "Iab26_1", value |-> 389, display |-> "IAB26-1"],
  [name |-> "Iab26_2", value |-> 390, display |-> "IAB26-2"],
  [name |-> "Iab26_3", value |-> 391, display |-> "IAB26-3"],
  [name |-> "Iab26_4", value |-> 392, display |-> "IAB26-4"]}

BannerAdType ==
  {[name |-> "XhtmlTextAd", value |-> 1, display |-> "XHTML_TEXT_AD"],
  [name |-> "XhtmlBannerAd", value |-> 2, display |-> "XHTML_BANNER_AD"],
  [name |-> "JavascriptAd", value |-> 3, display |-> "JAVASCRIPT_AD"],
  [name |-> "Iframe", value |-> 4, display |-> "IFRAME"]}

CreativeAttribute ==
  {[name |-> "AudioAutoPlay", value |-> 1, display |-> "AUDIO_AUTO_PLAY"],
  [name |-> "AudioUserInitiated", value |-> 2, display |-> "AUDIO_USER_INITIATED"],
  [name |-> "ExpandableAutomatic", value |-> 3, display |-> "EXPANDABLE_AUTOMATIC"],
  [name |-> "ExpandableClickInitiated", value |-> 4, display |-> "EXPANDABLE_CLICK_INITIATED"],
  [name |-> "ExpandableRolloverInitiated", value |-> 5, display |-> "EXPANDABLE_ROLLOVER_INITIATED"],
  [name |-> "VideoInBannerAutoPlay", value |-> 6, display |-> "VIDEO_IN_BANNER_AUTO_PLAY"],
  [name |-> "VideoInBannerUserInitiated", value |-> 7, display |-> "VIDEO_IN_BANNER_USER_INITIATED"],
  [name |-> "Pop", value |-> 8, display |-> "POP"],
  [name |-> "ProvocativeOrSuggestive", value |-> 9, display |-> "PROVOCATIVE_OR_SUGGESTIVE"],
  [name |-> "Annoying", value |-> 10, display |-> "ANNOYING"],
  [name |-> "Surveys", value |-> 11, display |-> "SURVEYS"],
  [name |-> "TextOnly", value |-> 12, display |-> "TEXT_ONLY"],
  [name |-> "UserInteractive", value |-> 13, display |-> "USER_INTERACTIVE"],
  [name |-> "WindowsDialogOrAlertStyle", value |-> 14, display |-> "WINDOWS_DIALOG_OR_ALERT_STYLE"],
  [name |-> "HasAudioOnOffButton", value |-> 15, display |-> "HAS_AUDIO_ON_OFF_BUTTON"],
  [name |-> "AdCanBeSkipped", value |-> 16, display |-> "AD_CAN_BE_SKIPPED"],
  [name |-> "Flash", value |-> 17, display |-> "FLASH"]}

ApiFramework ==
  {[name |-> "Vpaid1", value |-> 1, display |-> "VPAID_1"],
  [name |-> "Vpaid2", value |-> 2, display |-> "VPAID_2"],
  [name |-> "Mraid1", value |-> 3, display |-> "MRAID_1"],
  [name |-> "Ormma", value |-> 4, display |-> "ORMMA"],
  [name |-> "Mraid2", value |-> 5, display |-> "MRAID_2"],
  [name |-> "Mraid3", value |-> 6, display |-> "MRAID_3"],
  [name |-> "Omid1", value |-> 7, display |-> "OMID_1"]}

AdPosition ==
  {[name |-> "Unknown", value |-> 0, display |-> "UNKNOWN"],
  [name |-> "AboveTheFold", value |-> 1, display |-> "ABOVE_THE_FOLD"],
  [name |-> "LikelyBelowTheFold", value |-> 2, display |-> "LIKELY_BELOW_THE_FOLD"],
  [name |-> "BelowTheFold", value |-> 3, display |-> "BELOW_THE_FOLD"],
  [name |-> "Header", value |-> 4, display |-> "HEADER"],
  [name |-> "Footer", value |-> 5, display |-> "FOOTER"],
  [name |-> "Sidebar", value |-> 6, display |-> "SIDEBAR"],
  [name |-> "Fullscreen", value |-> 7, display |-> "AD_POSITION_FULLSCREEN"]}

VideoLinearity ==
  {[name |-> "Linear", value |-> 1, display |-> "LINEAR"],
  [name |-> "NonLinear", value |-> 2, display |-> "NON_LINEAR"]}

Protocol ==
  {[name |-> "Vast10", value |-> 1, display |-> "VAST_1_0"],
  [name |-> "Vast20", value |-> 2, display |-> "VAST_2_0"],
  [name |-> "Vast30", value |-> 3, display |-> "VAST_3_0"],
  [name |-> "Vast10Wrapper", value |-> 4, display |-> "VAST_1_0_WRAPPER"],
  [name |-> "Vast20Wrapper", value |-> 5, display |-> "VAST_2_0_WRAPPER"],
  [name |-> "Vast30Wrapper", value |-> 6, display |-> "VAST_3_0_WRAPPER"],
  [name |-> "Vast40", value |-> 7, display |-> "VAST_4_0"],
  [name |-> "Vast40Wrapper", value |-> 8, display |-> "VAST_4_0_WRAPPER"],
  [name |-> "Daast10", value |-> 9, display |-> "DAAST_1_0"],
  [name |-> "Daast10Wrapper", value |-> 10, display |-> "DAAST_1_0_WRAPPER"]}

PlaybackMethod ==
  {[name |-> "AutoPlaySoundOn", value |-> 1, display |-> "AUTO_PLAY_SOUND_ON"],
  [name |-> "AutoPlaySoundOff", value |-> 2, display |-> "AUTO_PLAY_SOUND_OFF"],
  [name |-> "ClickToPlay", value |-> 3, display |-> "CLICK_TO_PLAY"],
  [name |-> "MouseOver", value |-> 4, display |-> "MOUSE_OVER"],
  [name |-> "EnterSoundOn", value |-> 5, display |-> "ENTER_SOUND_ON"],
  [name |-> "EnterSoundOff", value |-> 6, display |-> "ENTER_SOUND_OFF"]}

StartDelay ==
  {[name |-> "PreRoll", value |-> 0, display |-> "PRE_ROLL"],
  [name |-> "GenericMidRoll", value |-> -1, display |-> "GENERIC_MID_ROLL"],
  [name |-> "GenericPostRoll", value |-> -2, display |-> "GENERIC_POST_ROLL"]}

VideoPlacementType ==
  {[name |-> "UndefinedVideoPlacement", value |-> 0, display |-> "UNDEFINED_VIDEO_PLACEMENT"],
  [name |-> "InStreamPlacement", value |-> 1, display |-> "IN_STREAM_PLACEMENT"],
  [name |-> "InBannerPlacement", value |-> 2, display |-> "IN_BANNER_PLACEMENT"],
  [name |-> "InArticlePlacement", value |-> 3, display |-> "IN_ARTICLE_PLACEMENT"],
  [name |-> "InFeedPlacement", value |-> 4, display |-> "IN_FEED_PLACEMENT"],
  [name |-> "FloatingPlacement", value |-> 5, display |-> "FLOATING_PLACEMENT"]}

PlaybackCessationMode ==
  {[name |-> "CompletionOrUser", value |-> 1, display |-> "COMPLETION_OR_USER"],
  [name |-> "LeavingOrUser", value |-> 2, display |-> "LEAVING_OR_USER"],
  [name |-> "LeavingContinuesOrUser", value |-> 3, display |-> "LEAVING_CONTINUES_OR_USER"]}

ConnectionType ==
  {[name |-> "ConnectionUnknown", value |-> 0, display |-> "CONNECTION_UNKNOWN"],
  [name |-> "Ethernet", value |-> 1, display |-> "ETHERNET"],
  [name |-> "Wifi", value |-> 2, display |-> "WIFI"],
  [name |-> "CellUnknown", value |-> 3, display |-> "CELL_UNKNOWN"],
  [name |-> "Cell2g", value |-> 4, display |-> "CELL_2G"],
  [name |-> "Cell3g", value |-> 5, display |-> "CELL_3G"],
  [name |-> "Cell4g", value |-> 6, display |-> "CELL_4G"]}

ExpandableDirection ==
  {[name |-> "Left", value |-> 1, display |-> "LEFT"],
  [name |-> "Right", value |-> 2, display |-> "RIGHT"],
  [name |-> "Up", value |-> 3, display |-> "UP"],
  [name |-> "Down", value |-> 4, display |-> "DOWN"],
  [name |-> "ExpandableFullscreen", value |-> 5, display |-> "EXPANDABLE_FULLSCREEN"]}

ContentDeliveryMethod ==
  {[name |-> "Streaming", value |-> 1, display |-> "STREAMING"],
  [name |-> "Progressive", value |-> 2, display |-> "PROGRESSIVE"]}

ContentContext ==
  {[name |-> "Video", value |-> 1, display |-> "VIDEO"],
  [name |-> "Game", value |-> 2, display |-> "GAME"],
  [name |-> "Music", value |-> 3, display |-> "MUSIC"],
  [name |-> "Application", value |-> 4, display |-> "APPLICATION"],
  [name |-> "Text", value |-> 5, display |-> "TEXT"],
  [name |-> "Other", value |-> 6, display |-> "OTHER"],
  [name |-> "ContextUnknown", value |-> 7, display |-> "CONTEXT_UNKNOWN"]}

ProductionQuality ==
  {[name |-> "QualityUnknown", value |-> 0, display |-> "QUALITY_UNKNOWN"],
  [name |-> "Professional", value |-> 1, display |-> "PROFESSIONAL"],
  [name |-> "Prosumer", value |-> 2, display |-> "PROSUMER"],
  [name |-> "UserGenerated", value |-> 3, display |-> "USER_GENERATED"]}

LocationType ==
  {[name |-> "GpsLocation", value |-> 1, display |-> "GPS_LOCATION"],
  [name |-> "Ip", value |-> 2, display |-> "IP"],
  [name |-> "UserProvided", value |-> 3, display |-> "USER_PROVIDED"]}

LocationService ==
  {[name |-> "Ip2location", value |-> 1, display |-> "IP2LOCATION"],
  [name |-> "Neustar", value |-> 2, display |-> "NEUSTAR"],
  [name |-> "Maxmind", value |-> 3, display |-> "MAXMIND"],
  [name |-> "Netacuity", value |-> 4, display |-> "NETACUITY"]}

DeviceType ==
  {[name |-> "Mobile", value |-> 1, display |-> "MOBILE"],
  [name |-> "PersonalComputer", value |-> 2, display |-> "PERSONAL_COMPUTER"],
  [name |-> "ConnectedTv", value |-> 3, display |-> "CONNECTED_TV"],
  [name |-> "HighendPhone", value |-> 4, display |-> "HIGHEND_PHONE"],
  [name |-> "Tablet", value |-> 5, display |-> "TABLET"],
  [name |-> "ConnectedDevice", value |-> 6, display |-> "CONNECTED_DEVICE"],
  [name |-> "SetTopBox", value |-> 7, display |-> "SET_TOP_BOX"]}

CompanionType ==
  {[name |-> "Static", value |-> 1, display |-> "STATIC"],
  [name |-> "Html", value |-> 2, display |-> "HTML"],
  [name |-> "CompanionIframe", value |-> 3, display |-> "COMPANION_IFRAME"]}

QagMediaRating ==
  {[name |-> "AllAudiences", value |-> 1, display |-> "ALL_AUDIENCES"],
  [name |-> "EveryoneOver12", value |-> 2, display |-> "EVERYONE_OVER_12"],
  [name |-> "Mature", value |-> 3, display |-> "MATURE"]}

NoBidReason ==
  {[name |-> "UnknownError", value |-> 0, display |-> "UNKNOWN_ERROR"],
  [name |-> "TechnicalError", value |-> 1, display |-> "TECHNICAL_ERROR"],
  [name |-> "InvalidRequest", value |-> 2, display |-> "INVALID_REQUEST"],
  [name |-> "KnownWebSpider", value |-> 3, display |-> "KNOWN_WEB_SPIDER"],
  [name |-> "SuspectedNonhumanTraffic", value |-> 4, display |-> "SUSPECTED_NONHUMAN_TRAFFIC"],
  [name |-> "CloudDatacenterProxyip", value |-> 5, display |-> "CLOUD_DATACENTER_PROXYIP"],
  [name |-> "UnsupportedDevice", value |-> 6, display |-> "UNSUPPORTED_DEVICE"],
  [name |-> "BlockedPublisher", value |-> 7, display |-> "BLOCKED_PUBLISHER"],
  [name |-> "UnmatchedUser", value |-> 8, display |-> "UNMATCHED_USER"],
  [name |-> "DailyReaderCap", value |-> 9, display |-> "DAILY_READER_CAP"],
  [name |-> "DailyDomainCap", value |-> 10, display |-> "DAILY_DOMAIN_CAP"]}

LossReason ==
  {[name |-> "BidWon", value |-> 0, display |-> "BID_WON"],
  [name |-> "InternalError", value |-> 1, display |-> "INTERNAL_ERROR"],
  [name |-> "ImpExpired", value |-> 2, display |-> "IMP_EXPIRED"],
  [name |-> "InvalidBid", value |-> 3, display |-> "INVALID_BID"],
  [name |-> "InvalidDealId", value |-> 4, display |-> "INVALID_DEAL_ID"],
  [name |-> "InvalidAuctionId", value |-> 5, display |-> "INVALID_AUCTION_ID"],
  [name |-> "InvalidAdomain", value |-> 6, display |-> "INVALID_ADOMAIN"],
  [name |-> "MissingMarkup", value |-> 7, display |-> "MISSING_MARKUP"],
  [name |-> "MissingCreativeId", value |-> 8, display |-> "MISSING_CREATIVE_ID"],
  [name |-> "MissingPrice", value |-> 9, display |-> "MISSING_PRICE"],
  [name |-> "MissingMinCreativeApprovalData", value |-> 10, display |-> "MISSING_MIN_CREATIVE_APPROVAL_DATA"],
  [name |-> "BidBelowFloor", value |-> 100, display |-> "BID_BELOW_FLOOR"],
  [name |-> "BidBelowDealFloor", value |-> 101, display |-> "BID_BELOW_DEAL_FLOOR"],
  [name |-> "LostHigherBid", value |-> 102, display |-> "LOST_HIGHER_BID"],
  [name |-> "LostPmpDeal", value |-> 103, display |-> "LOST_PMP_DEAL"],
  [name |-> "SeatBlocked", value |-> 104, display |-> "SEAT_BLOCKED"],
  [name |-> "CreativeReasonUnknown", value |-> 200, display |-> "CREATIVE_REASON_UNKNOWN"],
  [name |-> "CreativePending", value |-> 201, display |-> "CREATIVE_PENDING"],
  [name |-> "CreativeDisapproved", value |-> 202, display |-> "CREATIVE_DISAPPROVED"],
  [name |-> "CreativeSize", value |-> 203, display |-> "CREATIVE_SIZE"],
  [name |-> "CreativeFormat", value |-> 204, display |-> "CREATIVE_FORMAT"],
  [name |-> "CreativeAdvertiserExclusion", value |-> 205, display |-> "CREATIVE_ADVERTISER_EXCLUSION"],
  [name |-> "CreativeAppExclusion", value |-> 206, display |-> "CREATIVE_APP_EXCLUSION"],
  [name |-> "CreativeNotSecure", value |-> 207, display |-> "CREATIVE_NOT_SECURE"],
  [name |-> "CreativeLanguageExclusion", value |-> 208, display |-> "CREATIVE_LANGUAGE_EXCLUSION"],
  [name |-> "CreativeCategoryExclusion", value |-> 209, display |-> "CREATIVE_CATEGORY_EXCLUSION"],
  [name |-> "CreativeAttributeExclusion", value |-> 210, display |-> "CREATIVE_ATTRIBUTE_EXCLUSION"],
  [name |-> "CreativeAdtypeExclusion", value |-> 211, display |-> "CREATIVE_ADTYPE_EXCLUSION"],
  [name |-> "CreativeAnimationLong", value |-> 212, display |-> "CREATIVE_ANIMATION_LONG"],
  [name |-> "CreativeNotAllowedPmp", value |-> 213, display |-> "CREATIVE_NOT_ALLOWED_PMP"]}

FeedType ==
  {[name |-> "MusicService", value |-> 1, display |-> "MUSIC_SERVICE"],
  [name |-> "Broadcast", value |-> 2, display |-> "BROADCAST"],
  [name |-> "Podcast", value |-> 3, display |-> "PODCAST"]}

VolumeNormalizationMode ==
  {[name |-> "None", value |-> 0, display |-> "NONE"],
  [name |-> "AverageVolume", value |-> 1, display |-> "AVERAGE_VOLUME"],
  [name |-> "PeakVolume", value |-> 2, display |-> "PEAK_VOLUME"],
  [name |-> "Loudness", value |-> 3, display |-> "LOUDNESS"],
  [name |-> "CustomVolume", value |-> 4, display |-> "CUSTOM_VOLUME"]}

LayoutId ==
  {[name |-> "ContentWall", value |-> 1, display |-> "CONTENT_WALL"],
  [name |-> "AppWall", value |-> 2, display |-> "APP_WALL"],
  [name |-> "NewsFeed", value |-> 3, display |-> "NEWS_FEED"],
  [name |-> "ChatList", value |-> 4, display |-> "CHAT_LIST"],
  [name |-> "Carousel", value |-> 5, display |-> "CAROUSEL"],
  [name |-> "ContentStream", value |-> 6, display |-> "CONTENT_STREAM"],
  [name |-> "Grid", value |-> 7, display |-> "GRID"]}

AdUnitId ==
  {[name |-> "PaidSearchUnit", value |-> 1, display |-> "PAID_SEARCH_UNIT"],
  [name |-> "RecommendationWidget", value |-> 2, display |-> "RECOMMENDATION_WIDGET"],
  [name |-> "PromotedListing", value |-> 3, display |-> "PROMOTED_LISTING"],
  [name |-> "IabInAdNative", value |-> 4, display |-> "IAB_IN_AD_NATIVE"],
  [name |-> "AdunitidCustom", value |-> 5, display |-> "ADUNITID_CUSTOM"]}

ContextType ==
  {[name |-> "Content", value |-> 1, display |-> "CONTENT"],
  [name |-> "Social", value |-> 2, display |-> "SOCIAL"],
  [name |-> "Product", value |-> 3, display |-> "PRODUCT"]}

ContextSubtype ==
  {[name |-> "ContentGeneralOrMixed", value |-> 10, display |-> "CONTENT_GENERAL_OR_MIXED"],
  [name |-> "ContentArticle", value |-> 11, display |-> "CONTENT_ARTICLE"],
  [name |-> "ContentVideo", value |-> 12, display |-> "CONTENT_VIDEO"],
  [name |-> "ContentAudio", value |-> 13, display |-> "CONTENT_AUDIO"],
  [name |-> "ContentImage", value |-> 14, display |-> "CONTENT_IMAGE"],
  [name |-> "ContentUserGenerated", value |-> 15, display |-> "CONTENT_USER_GENERATED"],
  [name |-> "SocialGeneral", value |-> 20, display |-> "SOCIAL_GENERAL"],
  [name |-> "SocialEmail", value |-> 21, display |-> "SOCIAL_EMAIL"],
  [name |-> "SocialChatIm", value |-> 22, display |-> "SOCIAL_CHAT_IM"],
  [name |-> "ProductSelling", value |-> 30, display |-> "PRODUCT_SELLING"],
  [name |-> "ProductMarketplace", value |-> 31, display |-> "PRODUCT_MARKETPLACE"],
  [name |-> "ProductReview", value |-> 32, display |-> "PRODUCT_REVIEW"]}

PlacementType ==
  {[name |-> "InFeed", value |-> 1, display |-> "IN_FEED"],
  [name |-> "AtomicUnit", value |-> 2, display |-> "ATOMIC_UNIT"],
  [name |-> "Outside", value |-> 3, display |-> "OUTSIDE"],
  [name |-> "Recommendation", value |-> 4, display |-> "RECOMMENDATION"]}

DataAssetType ==
  {[name |-> "Sponsored", value |-> 1, display |-> "SPONSORED"],
  [name |-> "Desc", value |-> 2, display |-> "DESC"],
  [name |-> "Rating", value |-> 3, display |-> "RATING"],
  [name |-> "Likes", value |-> 4, display |-> "LIKES"],
  [name |-> "Downloads", value |-> 5, display |-> "DOWNLOADS"],
  [name |-> "Price", value |-> 6, display |-> "PRICE"],
  [name |-> "Saleprice", value |-> 7, display |-> "SALEPRICE"],
  [name |-> "Phone", value |-> 8, display |-> "PHONE"],
  [name |-> "Address", value |-> 9, display |-> "ADDRESS"],
  [name |-> "Desc2", value |-> 10, display |-> "DESC2"],
  [name |-> "Displayurl", value |-> 11, display |-> "DISPLAYURL"],
  [name |-> "Ctatext", value |-> 12, display |-> "CTATEXT"]}

ImageAssetType ==
  {[name |-> "Icon", value |-> 1, display |-> "ICON"],
  [name |-> "Logo", value |-> 2, display |-> "LOGO"],
  [name |-> "Main", value |-> 3, display |-> "MAIN"]}

EventType ==
  {[name |-> "Impression", value |-> 1, display |-> "IMPRESSION"],
  [name |-> "ViewableMrc50", value |-> 2, display |-> "VIEWABLE_MRC_50"],
  [name |-> "ViewableMrc100", value |-> 3, display |-> "VIEWABLE_MRC_100"],
  [name |-> "ViewableVideo50", value |-> 4, display |-> "VIEWABLE_VIDEO_50"]}

EventTrackingMethod ==
  {[name |-> "Img", value |-> 1, display |-> "IMG"],
  [name |-> "Js", value |-> 2, display |-> "JS"]}

EnumNames ==
  {"ContentCategory", "BannerAdType", "CreativeAttribute", "ApiFramework", "AdPosition", "VideoLinearity", "Protocol", "PlaybackMethod", "StartDelay", "VideoPlacementType", "PlaybackCessationMode", "ConnectionType", "ExpandableDirection", "ContentDeliveryMethod", "ContentContext", "ProductionQuality", "LocationType", "LocationService", "DeviceType", "CompanionType", "QagMediaRating", "NoBidReason", "LossReason", "FeedType", "VolumeNormalizationMode", "LayoutId", "AdUnitId", "ContextType", "ContextSubtype", "PlacementType", "DataAssetType", "ImageAssetType", "EventType", "EventTrackingMethod"}

Variants(name) ==
  CASE name = "ContentCategory" -> ContentCategory
    [] name = "BannerAdType" -> BannerAdType
    [] name = "CreativeAttribute" -> CreativeAttribute
    [] name = "ApiFramework" -> ApiFramework
    [] name = "AdPosition" -> AdPosition
    [] name = "VideoLinearity" -> VideoLinearity
    [] name = "Protocol" -> Protocol
    [] name = "PlaybackMethod" -> PlaybackMethod
    [] name = "StartDelay" -> StartDelay
    [] name = "VideoPlacementType" -> VideoPlacementType
    [] name = "PlaybackCessationMode" -> PlaybackCessationMode
    [] name = "ConnectionType" -> ConnectionType
    [] name = "ExpandableDirection" -> ExpandableDirection
    [] name = "ContentDeliveryMethod" -> ContentDeliveryMethod
    [] name = "ContentContext" -> ContentContext
    [] name = "ProductionQuality" -> ProductionQuality
    [] name = "LocationType" -> LocationType
    [] name = "LocationService" -> LocationService
    [] name = "DeviceType" -> DeviceType
    [] name = "CompanionType" -> CompanionType
    [] name = "QagMediaRating" -> QagMediaRating
    [] name = "NoBidReason" -> NoBidReason
    [] name = "LossReason" -> LossReason
    [] name = "FeedType" -> FeedType
    [] name = "VolumeNormalizationMode" -> VolumeNormalizationMode
    [] name = "LayoutId" -> LayoutId
    [] name = "AdUnitId" -> AdUnitId
    [] name = "ContextType" -> ContextType
    [] name = "ContextSubtype" -> ContextSubtype
    [] name = "PlacementType" -> PlacementType
    [] name = "DataAssetType" -> DataAssetType
    [] name = "ImageAssetType" -> ImageAssetType
    [] name = "EventType" -> EventType
    [] name = "EventTrackingMethod" -> EventTrackingMethod

(* Objects: one field table per struct deriving Serialize and Deserialize.
   skip is TRUE when the field carries
   #[serde(skip_serializing_if = "Option::is_none")]. *)

BidRequest ==
  <<Fld("id", TString, FALSE),
    Fld("imp", TVec(TStruct("bid_request::Imp")), FALSE),
    Fld("device", TOption(TStruct("bid_request::Device")), TRUE),
    Fld("regs", TOption(TStruct("bid_request::Regs")), TRUE),
    Fld("user", TOption(TStruct("bid_request::User")), TRUE),
    Fld("at", TOption(TAuctionType), TRUE),
    Fld("tmax", TOption(TI32), TRUE),
    Fld("wseat", TOption(TVec(TString)), TRUE),
    Fld("allimps", TOption(TBool), TRUE),
    Fld("cur", TOption(TVec(TString)), TRUE),
    Fld("bcat", TOption(TVec(TString)), TRUE),
    Fld("badv", TOption(TVec(TString)), TRUE),
    Fld("bapp", TOption(TVec(TString)), TRUE),
    Fld("test", TOption(TBool), TRUE),
    Fld("bseat", TOption(TVec(TString)), TRUE),
    Fld("wlang", TOption(TVec(TString)), TRUE),
    Fld("source", TOption(TStruct("bid_request::Source")), TRUE),
    Fld("site", TOption(TStruct("bid_request::Site")), TRUE),
    Fld("app", TOption(TStruct("bid_request::App")), TRUE),
    Fld("ext", TOption(TValue), TRUE)>>

bid_request_Source ==
  <<Fld("fd", TOption(TBool), TRUE),
    Fld("tid", TOption(TString), TRUE),
    Fld("pchain", TOption(TString), TRUE),
    Fld("ext", TOption(TValue), TRUE)>>

bid_request_Imp ==
  <<Fld("id", TString, FALSE),
    Fld("banner", TOption(TStruct("bid_request::imp::Banner")), TRUE),
    Fld("video", TOption(TStruct("bid_request::imp::Video")), TRUE),
    Fld("audio", TOption(TStruct("bid_request::imp::Audio")), TRUE),
    Fld("displaymanager", TOption(TString), TRUE),
    Fld("displaymanagerver", TOption(TString), TRUE),
    Fld("instl", TOption(TBool), TRUE),
    Fld("tagid", TOption(TString), TRUE),
    Fld("bidfloor", TOption(TF64), TRUE),
    Fld("bidfloorcur", TOption(TString), TRUE),
    Fld("clickbrowser", TOption(TBool), TRUE),
    Fld("secure", TOption(TBool), TRUE),
    Fld("iframebuster", TOption(TVec(TString)), TRUE),
    Fld("pmp", TOption(TStruct("bid_request::imp::Pmp")), TRUE),
    Fld("native", TOption(TStruct("bid_request::imp::Native")), TRUE),
    Fld("exp", TOption(TI32), TRUE),
    Fld("metric", TOption(TVec(TStruct("bid_request::imp::Metric"))), TRUE),
    Fld("ext", TOption(TValue), TRUE)>>

bid_request_imp_Metric ==
  <<Fld("type", TOption(TString), TRUE),
    Fld("value", TOption(TF64), TRUE),
    Fld("vendor", TOption(TString), TRUE),
    Fld("ext", TOption(TValue), TRUE)>>

bid_request_imp_Banner ==
  <<Fld("w", TOption(TI32), TRUE),
    Fld("h", TOption(TI32), TRUE),
    Fld("format", TOption(TVec(TStruct("bid_request::imp::banner::Format"))), TRUE),
    Fld("id", TOption(TString), TRUE),
    Fld("pos", TOption(TEnum("AdPosition")), TRUE),
    Fld("btype", TOption(TVec(TEnum("BannerAdType"))), TRUE),
    Fld("battr", TOption(TVec(TEnum("CreativeAttribute"))), TRUE),
    Fld("mimes", TOption(TVec(TString)), TRUE),
    Fld("topframe", TOption(TBool), TRUE),
    Fld("expdir", TOption(TVec(TEnum("ExpandableDirection"))), TRUE),
    Fld("api", TOption(TVec(TEnum("ApiFramework"))), TRUE),
    Fld("vcm", TOption(TBool), TRUE),
    Fld("wmax", TOption(TI32), TRUE),
    Fld("hmax", TOption(TI32), TRUE),
    Fld("wmin", TOption(TI32), TRUE),
    Fld("hmin", TOption(TI32), TRUE),
    Fld("ext", TOption(TValue), TRUE)>>

bid_request_imp_banner_Format ==
  <<Fld("w", TOption(TI32), TRUE),
    Fld("h", TOption(TI32), TRUE),
    Fld("wratio", TOption(TI32), TRUE),
    Fld("hratio", TOption(TI32), TRUE),
    Fld("wmin", TOption(TI32), TRUE),
    Fld("ext", TOption(TValue), TRUE)>>

bid_request_imp_Video ==
  <<Fld("mimes", TOption(TVec(TString)), TRUE),
    Fld("minduration", TOption(TI32), TRUE),
    Fld("maxduration", TOption(TI32), TRUE),
    Fld("startdelay", TOption(TI32), TRUE),
    Fld("protocols", TOption(TVec(TEnum("Protocol"))), TRUE),
    Fld("w", TOption(TI32), TRUE),
    Fld("h", TOption(TI32), TRUE),
    Fld("placement", TOption(TEnum("VideoPlacementType")), TRUE),
    Fld("linearity", TOption(TEnum("VideoLinearity")), TRUE),
    Fld("skip", TOption(TBool), TRUE),
    Fld("skipmin", TOption(TI32), TRUE),
    Fld("skipafter", TOption(TI32), TRUE),
    Fld("sequence", TOption(TI32), TRUE),
    Fld("battr", TOption(TVec(TEnum("CreativeAttribute"))), TRUE),
    Fld("maxextended", TOption(TI32), TRUE),
    Fld("minbitrate", TOption(TI32), TRUE),
    Fld("maxbitrate", TOption(TI32), TRUE),
    Fld("boxingallowed", TOption(TBool), TRUE),
    Fld("playbackmethod", TOption(TVec(TEnum("PlaybackMethod"))), TRUE),
    Fld("playbackend", TOption(TEnum("PlaybackCessationMode")), TRUE),
    Fld("delivery", TOption(TVec(TEnum("ContentDeliveryMethod"))), TRUE),
    Fld("pos", TOption(TEnum("AdPosition")), TRUE),
    Fld("companionad", TOption(TVec(TStruct("bid_request::imp::Banner"))), TRUE),
    Fld("api", TOption(TVec(TEnum("ApiFramework"))), TRUE),
    Fld("companiontype", TOption(TVec(TEnum("CompanionType"))), TRUE),
    Fld("protocol", TOption(TEnum("Protocol")), TRUE),
    Fld("ext", TOption(TValue), TRUE)>>

bid_request_imp_Audio ==
  <<Fld("mimes", TOption(TVec(TString)), TRUE),
    Fld("minduration", TOption(TI32), TRUE),
    Fld("maxduration", TOption(TI32), TRUE),
    Fld("protocols", TOption(TVec(TEnum("Protocol"))), TRUE),
    Fld("startdelay", TOption(TI32), TRUE),
    Fld("sequence", TOption(TI32), TRUE),
    Fld("battr", TOption(TVec(TEnum("CreativeAttribute"))), TRUE),
    Fld("maxextended", TOption(TI32), TRUE),
    Fld("minbitrate", TOption(TI32), TRUE),
    Fld("maxbitrate", TOption(TI32), TRUE),
    Fld("delivery", TOption(TVec(TEnum("ContentDeliveryMethod"))), TRUE),
    Fld("companionad", TOption(TVec(TStruct("bid_request::imp::Banner"))), TRUE),
    Fld("api", TOption(TVec(TEnum("ApiFramework"))), TRUE),
    Fld("companiontype", TOption(TVec(TEnum("CompanionType"))), TRUE),
    Fld("maxseq", TOption(TI32), TRUE),
    Fld("feed", TOption(TEnum("FeedType")), TRUE),
    Fld("stitched", TOption(TBool), TRUE),
    Fld("nvol", TOption(TEnum("VolumeNormalizationMode")), TRUE),
    Fld("ext", TOption(TValue), TRUE)>>

bid_request_imp_Native ==
  <<Fld("request", TOption(TString), TRUE),
    Fld("request_native", TOption(TStruct("NativeRequest")), TRUE),
    Fld("ver", TOption(TString), FALSE),
    Fld("api", TOption(TVec(TEnum("ApiFramework"))), TRUE),
    Fld("battr", TOption(TVec(TEnum("CreativeAttribute"))), TRUE),
    Fld("ext", TOption(TValue), TRUE)>>

bid_request_imp_Pmp ==
  <<Fld("private_auction", TOption(TBool), TRUE),
    Fld("deals", TOption(TVec(TStruct("bid_request::imp::pmp::Deal"))), TRUE),
    Fld("ext", TOption(TValue), TRUE)>>

bid_request_imp_pmp_Deal ==
  <<Fld("id", TString, FALSE),
    Fld("bidfloor", TOption(TF64), TRUE),
    Fld("bidfloorcur", TOption(TString), TRUE),
    Fld("wseat", TOption(TVec(TString)), TRUE),
    Fld("wadomain", TOption(TVec(TString)), TRUE),
    Fld("at", TOption(TAuctionType), TRUE),
    Fld("ext", TOption(TValue), TRUE)>>

bid_request_Site ==
  <<Fld("id", TOption(TString), TRUE),
    Fld("name", TOption(TString), TRUE),
    Fld("domain", TOption(TString), TRUE),
    Fld("cat", TOption(TVec(TString)), TRUE),
    Fld("sectioncat", TOption(TVec(TString)), TRUE),
    Fld("pagecat", TOption(TVec(TString)), TRUE),
    Fld("page", TOption(TString), TRUE),
    Fld("privacypolicy", TOption(TBool), TRUE),
    Fld("ref", TOption(TString), TRUE),
    Fld("search", TOption(TString), TRUE),
    Fld("publisher", TOption(TStruct("bid_request::Publisher")), TRUE),
    Fld("content", TOption(TStruct("bid_request::Content")), TRUE),
    Fld("keywords", TOption(TString), TRUE),
    Fld("mobile", TOption(TBool), TRUE),
    Fld("ext", TOption(TValue), TRUE)>>

bid_request_App ==
  <<Fld("id", TOption(TString), TRUE),
    Fld("name", TOption(TString), TRUE),
    Fld("domain", TOption(TString), TRUE),
    Fld("cat", TOption(TVec(TString)), TRUE),
    Fld("sectioncat", TOption(TVec(TString)), TRUE),
    Fld("pagecat", TOption(TVec(TString)), TRUE),
    Fld("ver", TOption(TString), TRUE),
    Fld("bundle", TOption(TString), TRUE),
    Fld("privacypolicy", TOption(TBool), TRUE),
    Fld("paid", TOption(TBool), TRUE),
    Fld("publisher", TOption(TStruct("bid_request::Publisher")), TRUE),
    Fld("content", TOption(TStruct("bid_request::Content")), TRUE),
    Fld("keywords", TOption(TString), TRUE),
    Fld("storeurl", TOption(TString), TRUE),
    Fld("ext", TOption(TValue), TRUE)>>

bid_request_Publisher ==
  <<Fld("id", TOption(TString), TRUE),
    Fld("name", TOption(TString), TRUE),
    Fld("cat", TOption(TVec(TString)), TRUE),
    Fld("domain", TOption(TString), TRUE),
    Fld("ext", TOption(TValue), TRUE)>>

bid_request_Content ==
  <<Fld("id", TOption(TString), TRUE),
    Fld("episode", TOption(TI32), TRUE),
    Fld("title", TOption(TString), TRUE),
    Fld("series", TOption(TString), TRUE),
    Fld("season", TOption(TString), TRUE),
    Fld("artist", TOption(TString), TRUE),
    Fld("genre", TOption(TString), TRUE),
    Fld("album", TOption(TString), TRUE),
    Fld("isrc", TOption(TString), TRUE),
    Fld("producer", TOption(TStruct("bid_request::Producer")), TRUE),
    Fld("url", TOption(TString), TRUE),
    Fld("cat", TOption(TVec(TString)), TRUE),
    Fld("prodq", TOption(TEnum("ProductionQuality")), TRUE),
    Fld("context", TOption(TEnum("ContentContext")), TRUE),
    Fld("contentrating", TOption(TString), TRUE),
    Fld("userrating", TOption(TString), TRUE),
    Fld("qagmediarating", TOption(TEnum("QagMediaRating")), TRUE),
    Fld("keywords", TOption(TString), TRUE),
    Fld("livestream", TOption(TBool), TRUE),
    Fld("sourcerelationship", TOption(TBool), TRUE),
    Fld("len", TOption(TI32), TRUE),
    Fld("language", TOption(TString), TRUE),
    Fld("embeddable", TOption(TBool), TRUE),
    Fld("data", TOption(TVec(TStruct("bid_request::Data"))), TRUE),
    Fld("videoquality", TOption(TEnum("ProductionQuality")), TRUE),
    Fld("ext", TOption(TValue), TRUE)>>

bid_request_Producer ==
  <<Fld("id", TOption(TString), TRUE),
    Fld("name", TOption(TString), TRUE),
    Fld("cat", TOption(TVec(TString)), TRUE),
    Fld("domain", TOption(TString), TRUE),
    Fld("ext", TOption(TValue), TRUE)>>

bid_request_Device ==
  <<Fld("geo", TOption(TStruct("bid_request::Geo")), TRUE),
    Fld("dnt", TOption(TBool), TRUE),
    Fld("lmt", TOption(TBool), TRUE),
    Fld("ua", TOption(TString), TRUE),
    Fld("ip", TOption(TString), TRUE),
    Fld("ipv6", TOption(TString), TRUE),
    Fld("devicetype", TOption(TEnum("DeviceType")), TRUE),
    Fld("make", TOption(TString), TRUE),
    Fld("model", TOption(TString), TRUE),
    Fld("os", TOption(TString), TRUE),
    Fld("osv", TOption(TString), TRUE),
    Fld("hwv", TOption(TString), TRUE),
    Fld("w", TOption(TI32), TRUE),
    Fld("h", TOption(TI32), TRUE),
    Fld("ppi", TOption(TI32), TRUE),
    Fld("pxratio", TOption(TF64), TRUE),
    Fld("js", TOption(TBool), TRUE),
    Fld("geofetch", TOption(TBool), TRUE),
    Fld("flashver", TOption(TString), TRUE),
    Fld("language", TOption(TString), TRUE),
    Fld("carrier", TOption(TString), TRUE),
    Fld("mccmnc", TOption(TString), TRUE),
    Fld("connectiontype", TOption(TEnum("ConnectionType")), TRUE),
    Fld("ifa", TOption(TString), TRUE),
    Fld("didsha1", TOption(TString), TRUE),
    Fld("didmd5", TOption(TString), TRUE),
    Fld("dpidsha1", TOption(TString), TRUE),
    Fld("dpidmd5", TOption(TString), TRUE),
    Fld("macsha1", TOption(TString), TRUE),
    Fld("macmd5", TOption(TString), TRUE),
    Fld("ext", TOption(TValue), TRUE)>>

bid_request_Geo ==
  <<Fld("lat", TOption(TF64), TRUE),
    Fld("lon", TOption(TF64), TRUE),
    Fld("country", TOption(TString), TRUE),
    Fld("region", TOption(TString), TRUE),
    Fld("regionfips104", TOption(TString), TRUE),
    Fld("metro", TOption(TString), TRUE),
    Fld("city", TOption(TString), TRUE),
    Fld("zip", TOption(TString), TRUE),
    Fld("type", TOption(TEnum("LocationType")), TRUE),
    Fld("accuracy", TOption(TI32), TRUE),
    Fld("lastfix", TOption(TI32), TRUE),
    Fld("ipservice", TOption(TEnum("LocationService")), TRUE),
    Fld("utcoffset", TOption(TI32), TRUE),
    Fld("ext", TOption(TValue), TRUE)>>

bid_request_User ==
  <<Fld("id", TOption(TString), TRUE),
    Fld("buyeruid", TOption(TString), TRUE),
    Fld("yob", TOption(TI32), TRUE),
    Fld("gender", TOption(TString), TRUE),
    Fld("keywords", TOption(TString), TRUE),
    Fld("customdata", TOption(TString), TRUE),
    Fld("geo", TOption(TStruct("bid_request::Geo")), TRUE),
    Fld("data", TOption(TVec(TStruct("bid_request::Data"))), TRUE),
    Fld("ext", TOption(TValue), TRUE)>>

bid_request_Data ==
  <<Fld("id", TOption(TString), TRUE),
    Fld("name", TOption(TString), TRUE),
    Fld("segment", TOption(TVec(TStruct("bid_request::data::Segment"))), TRUE),
    Fld("ext", TOption(TValue), TRUE)>>

bid_request_data_Segment ==
  <<Fld("id", TOption(TString), TRUE),
    Fld("name", TOption(TString), TRUE),
    Fld("value", TOption(TString), TRUE),
    Fld("ext", TOption(TValue), TRUE)>>

bid_request_Regs ==
  <<Fld("coppa", TOption(TBool), TRUE),
    Fld("ext", TOption(TValue), TRUE)>>

BidResponse ==
  <<Fld("id", TString, FALSE),
    Fld("seatbid", TOption(TVec(TStruct("bid_response::SeatBid"))), TRUE),
    Fld("bidid", TOption(TString), TRUE),
    Fld("cur", TOption(TString), TRUE),
    Fld("customdata", TOption(TString), TRUE),
    Fld("nbr", TOption(TEnum("NoBidReason")), TRUE),
    Fld("ext", TOption(TValue), TRUE)>>

bid_response_SeatBid ==
  <<Fld("bid", TVec(TStruct("bid_response::seat_bid::Bid")), FALSE),
    Fld("seat", TOption(TString), TRUE),
    Fld("group", TOption(TBool), TRUE),
    Fld("ext", TOption(TValue), TRUE)>>

bid_response_seat_bid_Bid ==
  <<Fld("id", TString, FALSE),
    Fld("impid", TString, FALSE),
    Fld("price", TF64, FALSE),
    Fld("nurl", TOption(TString), TRUE),
    Fld("burl", TOption(TString), TRUE),
    Fld("lurl", TOption(TString), TRUE),
    Fld("adid", TOption(TString), TRUE),
    Fld("adomain", TOption(TVec(TString)), TRUE),
    Fld("bundle", TOption(TString), TRUE),
    Fld("iurl", TOption(TString), TRUE),
    Fld("cid", TOption(TString), TRUE),
    Fld("crid", TOption(TString), TRUE),
    Fld("tactic", TOption(TString), TRUE),
    Fld("cat", TOption(TVec(TString)), TRUE),
    Fld("attr", TOption(TVec(TEnum("CreativeAttribute"))), TRUE),
    Fld("api", TOption(TEnum("ApiFramework")), TRUE),
    Fld("protocol", TOption(TEnum("Protocol")), TRUE),
    Fld("qagmediarating", TOption(TEnum("QagMediaRating")), TRUE),
    Fld("language", TOption(TString), TRUE),
    Fld("dealid", TOption(TString), TRUE),
    Fld("w", TOption(TI32), TRUE),
    Fld("h", TOption(TI32), TRUE),
    Fld("wratio", TOption(TI32), TRUE),
    Fld("hratio", TOption(TI32), TRUE),
    Fld("exp", TOption(TI32), TRUE),
    Fld("adm", TOption(TString), TRUE),
    Fld("adm_native", TOption(TStruct("NativeResponse")), TRUE),
    Fld("ext", TOption(TValue), TRUE)>>

NativeRequest ==
  <<Fld("ver", TOption(TString), TRUE),
    Fld("context", TOption(TEnum("ContextType")), TRUE),
    Fld("contextsubtype", TOption(TEnum("ContextSubtype")), TRUE),
    Fld("plcmttype", TOption(TEnum("PlacementType")), TRUE),
    Fld("plcmtcnt", TOption(TI32), TRUE),
    Fld("seq", TOption(TI32), TRUE),
    Fld("assets", TVec(TStruct("native_request::Asset")), FALSE),
    Fld("aurlsupport", TOption(TBool), TRUE),
    Fld("durlsupport", TOption(TBool), TRUE),
    Fld("eventtrackers", TOption(TVec(TStruct("native_request::EventTrackers"))), TRUE),
    Fld("privacy", TOption(TBool), TRUE),
    Fld("layout", TOption(TEnum("LayoutId")), TRUE),
    Fld("adunit", TOption(TEnum("AdUnitId")), TRUE),
    Fld("ext", TOption(TValue), TRUE)>>

native_request_Asset ==
  <<Fld("id", TI32, FALSE),
    Fld("required", TOption(TBool), TRUE),
    Fld("title", TOption(TStruct("native_request::asset::Title")), FALSE),
    Fld("img", TOption(TStruct("native_request::asset::Image")), FALSE),
    Fld("video", TOption(TStruct("bid_request::imp::Video")), FALSE),
    Fld("data", TOption(TStruct("native_request::asset::Data")), FALSE),
    Fld("ext", TOption(TValue), TRUE)>>

native_request_asset_Title ==
  <<Fld("len", TI32, FALSE),
    Fld("ext", TOption(TValue), TRUE)>>

native_request_asset_Image ==
  <<Fld("type", TOption(TEnum("ImageAssetType")), TRUE),
    Fld("w", TOption(TI32), TRUE),
    Fld("h", TOption(TI32), TRUE),
    Fld("wmin", TOption(TI32), TRUE),
    Fld("hmin", TOption(TI32), TRUE),
    Fld("mimes", TOption(TVec(TString)), TRUE),
    Fld("ext", TOption(TValue), TRUE)>>

native_request_asset_Data ==
  <<Fld("type", TEnum("DataAssetType"), FALSE),
    Fld("len", TOption(TI32), TRUE),
    Fld("ext", TOption(TValue), TRUE)>>

native_request_EventTrackers ==
  <<Fld("event", TEnum("EventType"), FALSE),
    Fld("methods", TVec(TEnum("EventTrackingMethod")), FALSE)>>

NativeResponse ==
  <<Fld("ver", TOption(TString), TRUE),
    Fld("assets", TVec(TStruct("native_response::Asset")), FALSE),
    Fld("assetsurl", TOption(TString), TRUE),
    Fld("dcourl", TOption(TString), TRUE),
    Fld("link", TStruct("native_response::Link"), FALSE),
    Fld("imptrackers", TOption(TVec(TString)), TRUE),
    Fld("jstracker", TOption(TString), TRUE),
    Fld("eventtrackers", TOption(TVec(TStruct("native_response::EventTracker"))), TRUE),
    Fld("privacy", TOption(TString), TRUE),
    Fld("ext", TOption(TValue), TRUE)>>

native_response_Link ==
  <<Fld("url", TString, FALSE),
    Fld("clicktrackers", TOption(TVec(TString)), TRUE),
    Fld("fallback", TOption(TString), TRUE),
    Fld("ext", TOption(TValue), TRUE)>>

native_response_Asset ==
  <<Fld("id", TI32, FALSE),
    Fld("required", TOption(TBool), TRUE),
    Fld("link", TOption(TStruct("native_response::Link")), TRUE),
    Fld("title", TOption(TStruct("native_response::asset::Title")), TRUE),
    Fld("img", TOption(TStruct("native_response::asset::Image")), TRUE),
    Fld("video", TOption(TStruct("native_response::asset::Video")), TRUE),
    Fld("data", TOption(TStruct("native_response::asset::Data")), TRUE),
    Fld("ext", TOption(TValue), TRUE)>>

native_response_asset_Title ==
  <<Fld("text", TString, FALSE),
    Fld("len", TOption(TI32), TRUE),
    Fld("ext", TOption(TValue), TRUE)>>

native_response_asset_Image ==
  <<Fld("type", TOption(TEnum("ImageAssetType")), TRUE),
    Fld("url", TString, FALSE),
    Fld("w", TOption(TI32), TRUE),
    Fld("h", TOption(TI32), TRUE),
    Fld("ext", TOption(TValue), TRUE)>>

native_response_asset_Data ==
  <<Fld("type", TOption(TEnum("DataAssetType")), TRUE),
    Fld("len", TOption(TI32), TRUE),
    Fld("label", TOption(TString), TRUE),
    Fld("value", TString, FALSE),
    Fld("ext", TOption(TValue), TRUE)>>

native_response_asset_Video ==
  <<Fld("vasttag", TString, FALSE),
    Fld("ext", TOption(TValue), TRUE)>>

native_response_EventTracker ==
  <<Fld("event", TOption(TEnum("EventType")), TRUE),
    Fld("method", TEnum("EventTrackingMethod"), FALSE),
    Fld("url", TOption(TString), TRUE),
    Fld("ext", TOption(TValue), TRUE)>>

(* The flat revision (bid_request.rs, app.rs). The objects it imports from
   modules that are not part of the sources are those of the nested
   revision. *)

flat_BidRequest ==
  <<Fld("id", TString, FALSE),
    Fld("imp", TOption(TVec(TStruct("bid_request::Imp"))), TRUE),
    Fld("site", TOption(TStruct("bid_request::Site")), TRUE),
    Fld("app", TOption(TStruct("flat::App")), TRUE),
    Fld("device", TOption(TStruct("bid_request::Device")), TRUE),
    Fld("regs", TOption(TStruct("bid_request::Regs")), TRUE),
    Fld("user", TOption(TStruct("bid_request::User")), TRUE),
    Fld("at", TFlatAuctionType, FALSE),
    Fld("tmax", TOption(TI32), TRUE),
    Fld("wseat", TOption(TVec(TString)), TRUE),
    Fld("allimps", TOption(TBool), TRUE),
    Fld("cur", TOption(TVec(TString)), TRUE),
    Fld("bcat", TOption(TVec(TString)), TRUE),
    Fld("badv", TOption(TVec(TString)), TRUE),
    Fld("bapp", TOption(TVec(TString)), TRUE),
    Fld("bseat", TOption(TVec(TString)), TRUE),
    Fld("wlang", TOption(TVec(TString)), TRUE),
    Fld("source", TOption(TStruct("bid_request::Source")), TRUE),
    Fld("test", TOption(TBool), TRUE),
    Fld("ext", TOption(TValue), TRUE)>>

flat_App ==
  <<Fld("id", TOption(TString), TRUE),
    Fld("name", TOption(TString), TRUE),
    Fld("domain", TOption(TString), TRUE),
    Fld("cat", TOption(TVec(TString)), TRUE),
    Fld("sectioncat", TOption(TVec(TString)), TRUE),
    Fld("pagecat", TOption(TVec(TString)), TRUE),
    Fld("ver", TOption(TString), TRUE),
    Fld("bundle", TOption(TString), TRUE),
    Fld("privacypolicy", TOption(TBool), TRUE),
    Fld("paid", TOption(TBool), TRUE),
    Fld("publisher", TOption(TStruct("bid_request::Publisher")), TRUE),
    Fld("content", TOption(TStruct("bid_request::Content")), TRUE),
    Fld("keywords", TOption(TString), TRUE),
    Fld("storeurl", TOption(TString), TRUE),
    Fld("ext", TOption(TValue), TRUE)>>

StructNames ==
  {"BidRequest",
   "bid_request::Source",
   "bid_request::Imp",
   "bid_request::imp::Metric",
   "bid_request::imp::Banner",
   "bid_request::imp::banner::Format",
   "bid_request::imp::Video",
   "bid_request::imp::Audio",
   "bid_request::imp::Native",
   "bid_request::imp::Pmp",
   "bid_request::imp::pmp::Deal",
   "bid_request::Site",
   "bid_request::App",
   "bid_request::Publisher",
   "bid_request::Content",
   "bid_request::Producer",
   "bid_request::Device",
   "bid_request::Geo",
   "bid_request::User",
   "bid_request::Data",
   "bid_request::data::Segment",
   "bid_request::Regs",
   "BidResponse",
   "bid_response::SeatBid",
   "bid_response::seat_bid::Bid",
   "NativeRequest",
   "native_request::Asset",
   "native_request::asset::Title",
   "native_request::asset::Image",
   "native_request::asset::Data",
   "native_request::EventTrackers",
   "NativeResponse",
   "native_response::Link",
   "native_response::Asset",
   "native_response::asset::Title",
   "native_response::asset::Image",
   "native_response::asset::Data",
   "native_response::asset::Video",
   "native_response::EventTracker",
   "flat::BidRequest",
   "flat::App"}

Fields(name) ==
  CASE name = "BidRequest" -> BidRequest
    [] name = "bid_request::Source" -> bid_request_Source
    [] name = "bid_request::Imp" -> bid_request_Imp
    [] name = "bid_request::imp::Metric" -> bid_request_imp_Metric
    [] name = "bid_request::imp::Banner" -> bid_request_imp_Banner
    [] name = "bid_request::imp::banner::Format" -> bid_request_imp_banner_Format
    [] name = "bid_request::imp::Video" -> bid_request_imp_Video
    [] name = "bid_request::imp::Audio" -> bid_request_imp_Audio
    [] name = "bid_request::imp::Native" -> bid_request_imp_Native
    [] name = "bid_request::imp::Pmp" -> bid_request_imp_Pmp
    [] name = "bid_request::imp::pmp::Deal" -> bid_request_imp_pmp_Deal
    [] name = "bid_request::Site" -> bid_request_Site
    [] name = "bid_request::App" -> bid_request_App
    [] name = "bid_request::Publisher" -> bid_request_Publisher
    [] name = "bid_request::Content" -> bid_request_Content
    [] name = "bid_request::Producer" -> bid_request_Producer
    [] name = "bid_request::Device" -> bid_request_Device
    [] name = "bid_request::Geo" -> bid_request_Geo
    [] name = "bid_request::User" -> bid_request_User
    [] name = "bid_request::Data" -> bid_request_Data
    [] name = "bid_request::data::Segment" -> bid_request_data_Segment
    [] name = "bid_request::Regs" -> bid_request_Regs
    [] name = "BidResponse" -> BidResponse
    [] name = "bid_response::SeatBid" -> bid_response_SeatBid
    [] name = "bid_response::seat_bid::Bid" -> bid_response_seat_bid_Bid
    [] name = "NativeRequest" -> NativeRequest
    [] name = "native_request::Asset" -> native_request_Asset
    [] name = "native_request::asset::Title" -> native_request_asset_Title
    [] name = "native_request::asset::Image" -> native_request_asset_Image
    [] name = "native_request::asset::Data" -> native_request_asset_Data
    [] name = "native_request::EventTrackers" -> native_request_EventTrackers
    [] name = "NativeResponse" -> NativeResponse
    [] name = "native_response::Link" -> native_response_Link
    [] name = "native_response::Asset" -> native_response_Asset
    [] name = "native_response::asset::Title" -> native_response_asset_Title
    [] name = "native_response::asset::Image" -> native_response_asset_Image
    [] name = "native_response::asset::Data" -> native_response_asset_Data
    [] name = "native_response::asset::Video" -> native_response_asset_Video
    [] name = "native_response::EventTracker" -> native_response_EventTracker
    [] name = "flat::BidRequest" -> flat_BidRequest
    [] name = "flat::App" -> flat_App

----------------------------------------------------------------------------
(* Hand-written codecs. *)

\* the two wire integers exchanged
Bool_serialize_inverted(b) ==
  IF b = True THEN JInt(W(0)) ELSE JInt(W(1))

\* bool::Bool::serialize: True -> serialize_u8(1), False -> serialize_u8(0)
Bool_serialize(b) ==
  IF b = True THEN JInt(W(1)) ELSE JInt(W(0))

\* the integer is cut to its low eight bits, as by `n as u8`
Bool_deserialize_wrapping(j) ==
  IF j.t = "int"
  THEN IF j.v.lo % 256 = 0 THEN Ok(False) ELSE Ok(True)
  ELSE Err("invalid type")

\* bool::Bool::deserialize: n = u8::deserialize(..)?; 0 -> False, _ -> True
Bool_deserialize(j) ==
  IF j.t = "int"
  THEN IF FitsU8(j.v)
       THEN IF j.v.lo = 0 THEN Ok(False) ELSE Ok(True)
       ELSE Err("invalid value")
  ELSE Err("invalid type")

\* the two named variants exchanged
AuctionType_serialize_swapped(a) ==
  CASE a.v = "FirstPrice" -> JInt(W(2))
    [] a.v = "SecondPrice" -> JInt(W(1))
    [] a.v = "FixedPrice" -> JInt(WOfU32(a.n))

\* AuctionType::serialize (openrtb.rs)
AuctionType_serialize(a) ==
  CASE a.v = "FirstPrice" -> JInt(W(1))
    [] a.v = "SecondPrice" -> JInt(W(2))
    [] a.v = "FixedPrice" -> JInt(WOfU32(a.n))

\* every integer is taken as the open variant, 1 and 2 included
AuctionType_deserialize_open(j) ==
  IF j.t = "int"
  THEN IF FitsU32(j.v) THEN Ok(FixedPrice(U32Of(j.v))) ELSE Err("invalid value")
  ELSE Err("invalid type")

\* the two named variants exchanged
AuctionType_deserialize_swapped(j) ==
  IF j.t = "int"
  THEN IF FitsU32(j.v)
       THEN CASE j.v = W(1) -> Ok(SecondPrice)
              [] j.v = W(2) -> Ok(FirstPrice)
              [] OTHER -> Ok(FixedPrice(U32Of(j.v)))
       ELSE Err("invalid value")
  ELSE Err("invalid type")

\* AuctionType::deserialize (openrtb.rs): the scrutinee is inferred as u32
AuctionType_deserialize(j) ==
  IF j.t = "int"
  THEN IF FitsU32(j.v)
       THEN CASE j.v = W(1) -> Ok(FirstPrice)
              [] j.v = W(2) -> Ok(SecondPrice)
              [] OTHER -> Ok(FixedPrice(U32Of(j.v)))
       ELSE Err("invalid value")
  ELSE Err("invalid type")

\* the two named variants of the flat revision exchanged
flat_AuctionType_serialize_swapped(a) ==
  CASE a.v = "FirstPrice" -> JInt(W(2))
    [] a.v = "SecondPricePlus" -> JInt(W(1))
    [] a.v = "ExchangeSpecific" -> JInt(WOfU32(a.n))

\* AuctionType::serialize (bid_request.rs)
flat_AuctionType_serialize(a) ==
  CASE a.v = "FirstPrice" -> JInt(W(1))
    [] a.v = "SecondPricePlus" -> JInt(W(2))
    [] a.v = "ExchangeSpecific" -> JInt(WOfU32(a.n))

\* the flat revision without the open range: only 1 and 2 are taken
flat_AuctionType_deserialize_closed(j) ==
  IF j.t = "int"
  THEN CASE j.v = W(1) -> Ok(flat_FirstPrice)
         [] j.v = W(2) -> Ok(flat_SecondPricePlus)
         [] OTHER -> Err("invalid value")
  ELSE Err("invalid type")

\* AuctionType::deserialize (bid_request.rs)
flat_AuctionType_deserialize(j) ==
  IF j.t = "int"
  THEN IF FitsU32(j.v)
       THEN CASE j.v = W(1) -> Ok(flat_FirstPrice)
              [] j.v = W(2) -> Ok(flat_SecondPricePlus)
              [] OTHER -> Ok(flat_ExchangeSpecific(U32Of(j.v)))
       ELSE Err("invalid value")
  ELSE Err("invalid type")

----------------------------------------------------------------------------
(* Derived codecs. *)

\* the constant's position in the declaration instead of its discriminant
Enum_serialize_ordinal(e) ==
  JInt(W(Cardinality({c \in Variants(e.enum) :
           c.value < (CHOOSE d \in Variants(e.enum) : d.name = e.v).value})))

\* Serialize_repr: the constant's discriminant as an i32
Enum_serialize(e) ==
  JInt(WOfI32((CHOOSE c \in Variants(e.enum) : c.name = e.v).value))

\* the discriminant read as an unsigned integer
Enum_deserialize_unsigned(name, j) ==
  IF j.t = "int"
  THEN IF FitsU32(j.v) /\ FitsI32(j.v)
       THEN IF \E c \in Variants(name) : c.value = I32Of(j.v)
            THEN Ok(VEnum(name, (CHOOSE c \in Variants(name) : c.value = I32Of(j.v)).name))
            ELSE Err("unknown value")
       ELSE Err("invalid value")
  ELSE Err("invalid type")

\* Deserialize_repr: read an i32, match it against the discriminants,
\* otherwise fail
Enum_deserialize(name, j) ==
  IF j.t = "int"
  THEN IF FitsI32(j.v)
       THEN IF \E c \in Variants(name) : c.value = I32Of(j.v)
            THEN Ok(VEnum(name, (CHOOSE c \in Variants(name) : c.value = I32Of(j.v)).name))
            ELSE Err("unknown value")
       ELSE Err("invalid value")
  ELSE Err("invalid type")

\* as_str_name: the display name of the constant
as_str_name(e) ==
  (CHOOSE c \in Variants(e.enum) : c.name = e.v).display

String_deserialize(j) ==
  IF j.t = "str" THEN Ok(VString(j.v)) ELSE Err("invalid type")

i32_deserialize(j) ==
  IF j.t = "int"
  THEN IF FitsI32(j.v) THEN Ok(VI32(I32Of(j.v))) ELSE Err("invalid value")
  ELSE Err("invalid type")

\* an f64 field accepts a JSON integer as well as a JSON float
f64_deserialize(j) ==
  CASE j.t = "float" -> Ok(VF64(j.v))
    [] j.t = "int" -> Ok(VF64(F64(j.v.neg, j.v.hi, j.v.lo, FALSE)))
    [] OTHER -> Err("invalid type")

\* an object in an extension slot loses its members
Value_deserialize_shallow(j) ==
  IF j.t = "obj" THEN Ok(VValue(JObj(<<>>))) ELSE Ok(VValue(j))

\* serde_json::Value: the JSON tree is stored as it is
Value_deserialize(j) ==
  Ok(VValue(j))

\* a failed optional field is taken as absent
Option_deserialize_lenient(j, r) ==
  IF j.t = "null" \/ ~IsOk(r) THEN Ok(None) ELSE Ok(Some(r.v))

\* Option<T>: null is None; otherwise r, the result of decoding j as T, is
\* wrapped in Some or its error returned
Option_deserialize(j, r) ==
  IF j.t = "null" THEN Ok(None)
  ELSE IF IsOk(r) THEN Ok(Some(r.v)) ELSE r

\* an undeclared key is refused, as under deny_unknown_fields
IgnoredAny_denied(k, j) ==
  Err("unknown field")

\* visit_map on a key that is not a declared field: its value is read and
\* dropped
IgnoredAny(k, j) ==
  Ok(Nil)

\* site and app are taken as alternatives: a request with both is refused
Build_oneof(name, f, dropped) ==
  IF name = "BidRequest" /\ f["site"] # None /\ f["app"] # None
  THEN Err("invalid value")
  ELSE Ok(VStruct(name, f))

\* the deprecated Video.protocol stands in for an absent protocols
Build_legacy(name, f, dropped) ==
  IF name = "bid_request::imp::Video" /\ f["protocol"] # None
       /\ f["protocols"] = None
  THEN Ok(VStruct(name,
         [f EXCEPT !["protocols"] = Some(VVec(<<f["protocol"].v>>))]))
  ELSE Ok(VStruct(name, f))

\* the undeclared keys are collected into an absent ext, as under flatten
Build_flatten(name, f, dropped) ==
  IF "ext" \in DOMAIN f /\ DOMAIN dropped # {} /\ f["ext"] = None
  THEN Ok(VStruct(name, [f EXCEPT !["ext"] = Some(VValue(JObj(dropped)))]))
  ELSE Ok(VStruct(name, f))

\* the end of the derived visitor: the struct is built from the decoded
\* fields as they are, whichever of them are present together; the values
\* of the undeclared keys are gone
Build(name, f, dropped) ==
  Ok(VStruct(name, f))

\* a missing sequence is taken as empty
MissingField_emptyVec(fty) ==
  CASE fty.k = "Option" -> Ok(None)
    [] fty.k = "Vec" -> Ok(VVec(<<>>))
    [] OTHER -> Err("missing field")

\* a missing optional auction type or flag takes the type's default
MissingField_default(fty) ==
  IF fty.k = "Option"
  THEN CASE fty.of = TAuctionType -> Ok(Some(SecondPrice))
         [] fty.of = TBool -> Ok(Some(False))
         [] OTHER -> Ok(None)
  ELSE Err("missing field")

\* a field missing from the wire object: Option<T> takes None, any other
\* type is an error
MissingField(fty) ==
  IF fty.k = "Option" THEN Ok(None) ELSE Err("missing field")

FieldNames(name) ==
  LET fs == Fields(name)
  IN {fs[i].name : i \in DOMAIN fs}

FieldOf(name, f) ==
  LET fs == Fields(name)
  IN fs[CHOOSE i \in DOMAIN fs : fs[i].name = f]

\* index of the first failed result; 0 when none failed
FirstErr(rs) ==
  IF \E i \in DOMAIN rs : ~IsOk(rs[i])
  THEN CHOOSE i \in DOMAIN rs : ~IsOk(rs[i]) /\ \A k \in DOMAIN rs : ~IsOk(rs[k]) => i <= k
  ELSE 0

RECURSIVE Deserialize(_, _)
\* derive(Deserialize) for T, applied to the JSON value j: Ok(value) or Err
Deserialize(t, j) ==
  CASE t.k = "String" -> String_deserialize(j)
    [] t.k = "i32" -> i32_deserialize(j)
    [] t.k = "f64" -> f64_deserialize(j)
    [] t.k = "Bool" -> Bool_deserialize(j)
    [] t.k = "AuctionType" -> AuctionType_deserialize(j)
    [] t.k = "flat::AuctionType" -> flat_AuctionType_deserialize(j)
    [] t.k = "Enum" -> Enum_deserialize(t.name, j)
    [] t.k = "Value" -> Value_deserialize(j)
    [] t.k = "Option" ->
         LET r == IF j.t = "null" THEN Nil ELSE Deserialize(t.of, j)
         IN Option_deserialize(j, r)
    [] t.k = "Vec" ->
         IF j.t # "arr" THEN Err("invalid type")
         ELSE LET rs == [i \in DOMAIN j.v |-> Deserialize(t.of, j.v[i])]
              IN IF FirstErr(rs) # 0 THEN rs[FirstErr(rs)]
                 ELSE Ok(VVec([i \in DOMAIN j.v |-> rs[i].v]))
    [] t.k = "Struct" ->
         LET fs == Fields(t.name)
         IN CASE j.t = "obj" ->
                   \* visit_map: declared keys are decoded, other keys ignored
                   LET rs == [i \in DOMAIN fs |->
                                IF fs[i].name \in DOMAIN j.v
                                THEN Deserialize(fs[i].ty, j.v[fs[i].name])
                                ELSE MissingField(fs[i].ty)]
                       other == DOMAIN j.v \ FieldNames(t.name)
                   IN IF \E k \in other : ~IsOk(IgnoredAny(k, j.v[k]))
                      THEN IgnoredAny(CHOOSE k \in other : ~IsOk(IgnoredAny(k, j.v[k])),
                                      j.v[CHOOSE k \in other : ~IsOk(IgnoredAny(k, j.v[k]))])
                      ELSE IF FirstErr(rs) # 0 THEN rs[FirstErr(rs)]
                      ELSE Build(t.name,
                                 [f \in FieldNames(t.name) |->
                                    rs[CHOOSE i \in DOMAIN fs : fs[i].name = f].v],
                                 [k \in other |-> j.v[k]])
              [] j.t = "arr" ->
                   \* visit_seq: the fields in declaration order
                   IF Len(j.v) # Len(fs) THEN Err("invalid length")
                   ELSE LET rs == [i \in DOMAIN fs |-> Deserialize(fs[i].ty, j.v[i])]
                        IN IF FirstErr(rs) # 0 THEN rs[FirstErr(rs)]
                           ELSE Build(t.name,
                                      [f \in FieldNames(t.name) |->
                                         rs[CHOOSE i \in DOMAIN fs : fs[i].name = f].v],
                                      [k \in {} |-> Nil])
              [] OTHER -> Err("invalid type")

\* no field is ever left out
Skipped_never(fld, x) ==
  FALSE

\* a false flag is left out like an absent one
Skipped_falsy(fld, x) ==
  fld.skip /\ (x = None \/ x = Some(False))

\* the field is left out of the encoded object
Skipped(fld, x) ==
  fld.skip /\ x = None

RECURSIVE Serialize(_, _)
\* derive(Serialize) for T, applied to the value x: the JSON value written
Serialize(t, x) ==
  CASE t.k = "String" -> JStr(x.v)
    [] t.k = "i32" -> JInt(WOfI32(x.v))
    [] t.k = "f64" -> JFloat(x.v)
    [] t.k = "Bool" -> Bool_serialize(x)
    [] t.k = "AuctionType" -> AuctionType_serialize(x)
    [] t.k = "flat::AuctionType" -> flat_AuctionType_serialize(x)
    [] t.k = "Enum" -> Enum_serialize(x)
    [] t.k = "Value" -> x.v
    [] t.k = "Option" -> IF x = None THEN JNull ELSE Serialize(t.of, x.v)
    [] t.k = "Vec" -> JArr([i \in DOMAIN x.v |-> Serialize(t.of, x.v[i])])
    [] t.k = "Struct" ->
         LET fs == Fields(t.name)
             kept == {i \in DOMAIN fs : ~Skipped(fs[i], x.v[fs[i].name])}
         IN JObj([f \in {fs[i].name : i \in kept} |->
                    Serialize(fs[CHOOSE i \in kept : fs[i].name = f].ty, x.v[f])])

----------------------------------------------------------------------------
(* Inputs: the wire values and the typed values a caller hands to the      *)
(* codecs.                                                                 *)

\* the integers 0..MaxWireInt and integers on both sides of the limits of
\* the carriers: -1, -2, -2^16, 2^16 - 1, 2^16, 2^31 - 1, 2^31, 2^32 - 1,
\* 2^32, 2^32 + 1
WireInts ==
  {W(n) : n \in 0..MaxWireInt}
    \cup {WNeg(1), WNeg(2), WInt(TRUE, 1, 0),
          W(Limb - 1), WInt(FALSE, 1, 0),
          WInt(FALSE, Limb \div 2 - 1, Limb - 1), WInt(FALSE, Limb \div 2, 0),
          WInt(FALSE, Limb - 1, Limb - 1), WInt(FALSE, Limb, 0), WInt(FALSE, Limb, 1)}

\* wire values that are not integers
NonInts ==
  {JNull, JBool(TRUE), JStr("1"), JFloat(F64(FALSE, 1, 0, TRUE)), JArr(<<>>), JObj(<<>>)}

\* the types whose wire form is a single integer
IntCodedTypes ==
  {TBool, TAuctionType, TFlatAuctionType} \cup {TEnum(e) : e \in EnumNames}

MinVariant(e) ==
  CHOOSE c \in Variants(e) : \A d \in Variants(e) : c.value <= d.value

MaxVariant(e) ==
  CHOOSE c \in Variants(e) : \A d \in Variants(e) : c.value >= d.value

\* extension payloads
ExtPayloads ==
  {JObj([k \in {"k"} |-> JInt(W(1))]), JStr("x"), JInt(W(0)), JArr(<<JNull>>),
   JBool(FALSE),
   JObj([k \in {"100", "2000"} |->
           IF k = "100" THEN JArr(<<JObj([m \in {"id"} |-> JStr("a")]), JBool(TRUE)>>)
           ELSE JObj([m \in {"v"} |-> JFloat(F64(TRUE, 0, 1, TRUE))])])}

\* well-formed wire values of a scalar type, falsy ones included
LeafWire(t) ==
  CASE t.k = "String" -> {JStr(""), JStr("a")}
    [] t.k = "i32" -> {JInt(W(0)), JInt(W(7)), JInt(WNeg(1))}
    [] t.k = "f64" -> {JFloat(F64(FALSE, 0, 0, FALSE)), JFloat(F64(FALSE, 2, 0, TRUE)), JInt(W(3))}
    [] t.k = "Bool" -> {JInt(W(0)), JInt(W(1)), JInt(W(5))}
    [] t.k = "AuctionType" -> {JInt(W(1)), JInt(W(2)), JInt(W(3)), JInt(W(512))}
    [] t.k = "flat::AuctionType" -> {JInt(W(1)), JInt(W(2)), JInt(W(3)), JInt(W(512))}
    [] t.k = "Enum" -> {JInt(WOfI32(MinVariant(t.name).value)), JInt(WOfI32(MaxVariant(t.name).value))}
    [] t.k = "Value" -> ExtPayloads

RequiredFields(name) ==
  LET fs == Fields(name)
  IN {fs[i].name : i \in {k \in DOMAIN fs : fs[k].ty.k # "Option"}}

RECURSIVE MinWire(_)
\* one plain wire value of the type; an object has its required keys only
MinWire(t) ==
  CASE t.k = "String" -> JStr("a")
    [] t.k = "i32" -> JInt(W(1))
    [] t.k = "f64" -> JFloat(F64(FALSE, 1, 0, TRUE))
    [] t.k = "Bool" -> JInt(W(1))
    [] t.k = "AuctionType" -> JInt(W(2))
    [] t.k = "flat::AuctionType" -> JInt(W(2))
    [] t.k = "Enum" -> JInt(WOfI32(MinVariant(t.name).value))
    [] t.k = "Value" -> JObj([k \in {"k"} |-> JInt(W(1))])
    [] t.k = "Option" -> MinWire(t.of)
    [] t.k = "Vec" -> JArr(<<MinWire(t.of)>>)
    [] t.k = "Struct" ->
         JObj([f \in RequiredFields(t.name) |-> MinWire(FieldOf(t.name, f).ty)])

\* the object with every declared key present
AllWire(name) ==
  JObj([f \in FieldNames(name) |-> MinWire(FieldOf(name, f).ty)])

\* the object o with key f set to x
WithKey(o, f, x) ==
  JObj([k \in DOMAIN o.v \cup {f} |-> IF k = f THEN x ELSE o.v[k]])

RECURSIVE WireSamples(_, _)
\* well-formed wire values of the type; below an object, every key is
\* varied alone down to depth d
WireSamples(t, d) ==
  CASE t.k = "Option" -> WireSamples(t.of, d)
    [] t.k = "Vec" ->
         {JArr(<<>>), JArr(<<MinWire(t.of), MinWire(t.of)>>)}
           \cup {JArr(<<x>>) : x \in WireSamples(t.of, d)}
    [] t.k = "Struct" ->
         {MinWire(t), AllWire(t.name)}
           \cup (IF d = 0 THEN {}
                 ELSE UNION {{WithKey(MinWire(t), f, x) :
                                x \in WireSamples(FieldOf(t.name, f).ty, d - 1)} :
                             f \in FieldNames(t.name)})
    [] OTHER -> LeafWire(t)

\* values of a scalar type, every variant included
LeafVals(t) ==
  CASE t.k = "String" -> {VString(""), VString("a")}
    [] t.k = "i32" -> {VI32(0), VI32(7), VI32(0 - 1)}
    [] t.k = "f64" -> {VF64(F64(FALSE, 0, 0, FALSE)), VF64(F64(FALSE, 2, 0, TRUE))}
    [] t.k = "Bool" -> {True, False}
    [] t.k = "AuctionType" ->
         {FirstPrice, SecondPrice, FixedPrice(U32(0, 0)), FixedPrice(U32(0, 1)),
          FixedPrice(U32(0, 2)), FixedPrice(U32(0, 3)), FixedPrice(U32(0, 512)),
          FixedPrice(U32(Limb - 1, Limb - 1))}
    [] t.k = "flat::AuctionType" ->
         {flat_FirstPrice, flat_SecondPricePlus, flat_ExchangeSpecific(U32(0, 0)),
          flat_ExchangeSpecific(U32(0, 1)), flat_ExchangeSpecific(U32(0, 2)),
          flat_ExchangeSpecific(U32(0, 3)), flat_ExchangeSpecific(U32(0, 512)),
          flat_ExchangeSpecific(U32(Limb - 1, Limb - 1))}
    [] t.k = "Enum" -> {VEnum(t.name, MinVariant(t.name).name), VEnum(t.name, MaxVariant(t.name).name)}
    [] t.k = "Value" -> {VValue(j) : j \in ExtPayloads \cup {JNull}}

RECURSIVE MinVal(_)
\* one plain value of the type; a struct has every optional field None
MinVal(t) ==
  CASE t.k = "String" -> VString("a")
    [] t.k = "i32" -> VI32(1)
    [] t.k = "f64" -> VF64(F64(FALSE, 1, 0, TRUE))
    [] t.k = "Bool" -> True
    [] t.k = "AuctionType" -> SecondPrice
    [] t.k = "flat::AuctionType" -> flat_SecondPricePlus
    [] t.k = "Enum" -> VEnum(t.name, MinVariant(t.name).name)
    [] t.k = "Value" -> VValue(JObj([k \in {"k"} |-> JInt(W(1))]))
    [] t.k = "Option" -> None
    [] t.k = "Vec" -> VVec(<<MinVal(t.of)>>)
    [] t.k = "Struct" ->
         VStruct(t.name, [f \in FieldNames(t.name) |-> MinVal(FieldOf(t.name, f).ty)])

\* the struct with every optional field Some(..)
AllVal(name) ==
  VStruct(name, [f \in FieldNames(name) |->
                   LET ft == FieldOf(name, f).ty
                   IN IF ft.k = "Option" THEN Some(MinVal(ft.of)) ELSE MinVal(ft)])

\* the struct s with field f set to x
WithField(s, f, x) ==
  VStruct(s.name, [k \in DOMAIN s.v |-> IF k = f THEN x ELSE s.v[k]])

RECURSIVE ValSamples(_, _)
\* values of the type; below a struct, every field is varied alone down to
\* depth d
ValSamples(t, d) ==
  CASE t.k = "Option" -> {None} \cup {Some(x) : x \in ValSamples(t.of, d)}
    [] t.k = "Vec" ->
         {VVec(<<>>), VVec(<<MinVal(t.of), MinVal(t.of)>>)}
           \cup {VVec(<<x>>) : x \in ValSamples(t.of, d)}
    [] t.k = "Struct" ->
         {MinVal(t), AllVal(t.name)}
           \cup (IF d = 0 THEN {}
                 ELSE UNION {{WithField(MinVal(t), f, x) :
                                x \in ValSamples(FieldOf(t.name, f).ty, d - 1)} :
                             f \in FieldNames(t.name)})
    [] OTHER -> LeafVals(t)

\* the object o without key f
WithoutKey(o, f) ==
  JObj([k \in DOMAIN o.v \ {f} |-> o.v[k]])

\* the fields of the object as a JSON array, in declaration order
ArrWire(name) ==
  JArr([i \in DOMAIN Fields(name) |-> MinWire(Fields(name)[i].ty)])

\* wire values of a scalar type that its codec refuses
WrongLeaf(t) ==
  CASE t.k = "String" -> {JNull, JInt(W(1))}
    [] t.k = "i32" -> {JStr("1"), JFloat(F64(FALSE, 1, 0, TRUE))}
    [] t.k = "f64" -> {JNull, JStr("1")}
    [] t.k = "Bool" -> {JBool(TRUE), JStr("1")}
    [] t.k = "AuctionType" -> {JNull, JStr("2")}
    [] t.k = "flat::AuctionType" -> {JNull, JStr("2")}
    [] t.k = "Enum" -> {JStr("1"), JInt(WOfI32(MaxVariant(t.name).value + 1))}
    [] t.k = "Value" -> {}

RECURSIVE Malformed(_, _)
\* wire values the type refuses: a scalar of the wrong JSON type or out of
\* range, an object without a required key, and, down to depth d, an object
\* or array holding such a value
Malformed(t, d) ==
  CASE t.k = "Option" -> Malformed(t.of, d) \ {JNull}
    [] t.k = "Vec" ->
         {JNull, JObj(<<>>)}
           \cup {JArr(<<x>>) : x \in Malformed(t.of, d)}
           \cup {JArr(<<MinWire(t.of), x>>) : x \in Malformed(t.of, d)}
    [] t.k = "Struct" ->
         {JNull, JStr("a"), JArr(<<>>)}
           \cup {WithoutKey(MinWire(t), f) : f \in RequiredFields(t.name)}
           \cup {WithoutKey(AllWire(t.name), f) : f \in RequiredFields(t.name)}
           \cup (IF d = 0 THEN {}
                 ELSE UNION {{WithKey(MinWire(t), f, x) :
                                x \in Malformed(FieldOf(t.name, f).ty, d - 1)} :
                             f \in FieldNames(t.name)})
    [] OTHER -> WrongLeaf(t)

RECURSIVE WithUnknown(_, _)
\* well-formed wire values of the type in which an object, down to depth d,
\* carries a key it does not declare (`ID` differs from `id` by case)
WithUnknown(t, d) ==
  CASE t.k = "Option" -> WithUnknown(t.of, d)
    [] t.k = "Vec" -> {JArr(<<x>>) : x \in WithUnknown(t.of, d)}
    [] t.k = "Struct" ->
         {WithKey(o, k, x) : o \in {MinWire(t), AllWire(t.name)}, k \in {"x_vendor", "ID"},
                             x \in {JNull, JStr("a"), JObj([m \in {"id"} |-> JInt(W(1))])}}
           \cup (IF d = 0 THEN {}
                 ELSE UNION {{WithKey(MinWire(t), f, x) :
                                x \in WithUnknown(FieldOf(t.name, f).ty, d - 1)} :
                             f \in FieldNames(t.name)})
    [] OTHER -> {}

\* an object given as an array, alone and as the value of a field
Positional(name) ==
  {ArrWire(name)}
    \cup {WithKey(MinWire(TStruct(name)), f, ArrWire(FieldOf(name, f).ty.of.name)) :
            f \in {g \in FieldNames(name) :
                     FieldOf(name, g).ty.k = "Option" /\ FieldOf(name, g).ty.of.k = "Struct"}}

\* an optional key carrying null
WithNull(name) ==
  {WithKey(o, f, JNull) : o \in {MinWire(TStruct(name)), AllWire(name)},
                          f \in FieldNames(name) \ RequiredFields(name)}

\* the fields the protocol relates to each other: the alternatives of a
\* request and of an impression, and a deprecated field with its replacement
Groups(name) ==
  CASE name = "BidRequest" -> {"site", "app"}
    [] name = "flat::BidRequest" -> {"site", "app"}
    [] name = "bid_request::Imp" -> {"banner", "video", "audio", "native"}
    [] name = "bid_request::imp::Banner" -> {"wmax", "hmax", "wmin", "hmin", "format"}
    [] name = "bid_request::imp::Video" -> {"protocol", "protocols"}
    [] name = "bid_request::Content" -> {"videoquality", "prodq"}
    [] name = "NativeRequest" -> {"layout", "adunit", "context", "plcmttype"}
    [] OTHER -> {}

RECURSIVE Combined(_, _)
\* the object with each of the fields fs absent or present, in every
\* combination and with every sample value
Combined(name, fs) ==
  IF fs = {} THEN {MinWire(TStruct(name))}
  ELSE LET f == CHOOSE k \in fs : TRUE
           rest == Combined(name, fs \ {f})
           vals == WireSamples(FieldOf(name, f).ty, 0)
       IN rest \cup {WithKey(o, f, x) : o \in rest, x \in vals}

\* the wire objects of the protocol's examples
Scenarios ==
  {[ty |-> TStruct(s), from |-> "wire",
    x |-> JObj(("id" :> JStr(id)) @@ ("imp" :> JArr(<<JObj("id" :> JStr("1"))>>))
                 @@ ("at" :> JInt(W(at))))] :
      s \in {"BidRequest", "flat::BidRequest"},
      id \in {"req-1", "req-2"}, at \in {1, 2, 512}}
    \cup {[ty |-> TStruct("BidResponse"), from |-> "wire",
           x |-> JObj(("id" :> JStr("req-1")) @@ ("nbr" :> JInt(W(n))))] : n \in {0, 2, 10}}

FromWire(t, j) ==
  [ty |-> t, from |-> "wire", x |-> j]

FromValue(t, x) ==
  [ty |-> t, from |-> "value", x |-> x]

\* the types a caller decodes and encodes
Types ==
  IntCodedTypes \cup {TStruct(s) : s \in StructNames}

\* an integer-coded type is fed every wire integer and every non-integer
\* and encodes every one of its values; an object type decodes and encodes
\* its samples, and is fed the values it refuses, objects with undeclared
\* keys, arrays and nulls
InputsOf(t) ==
  CASE t.k = "Struct" ->
         {FromWire(t, j) : j \in WireSamples(t, SampleDepth)}
           \cup {FromValue(t, x) : x \in ValSamples(t, SampleDepth)}
           \cup {FromWire(t, j) : j \in Malformed(t, ErrDepth)}
           \cup {FromWire(t, j) : j \in WithUnknown(t, SampleDepth)}
           \cup {FromWire(t, j) : j \in Positional(t.name) \cup WithNull(t.name)}
           \cup {FromWire(t, j) : j \in Combined(t.name, Groups(t.name))}
           \cup {inp \in Scenarios : inp.ty = t}
    [] t.k = "Enum" ->
         {FromWire(t, JInt(w)) : w \in WireInts}
           \cup {FromWire(t, j) : j \in NonInts}
           \cup {FromValue(t, VEnum(t.name, c.name)) : c \in Variants(t.name)}
    [] OTHER ->
         {FromWire(t, JInt(w)) : w \in WireInts}
           \cup {FromWire(t, j) : j \in NonInts}
           \cup {FromValue(t, x) : x \in LeafVals(t)}

----------------------------------------------------------------------------
(* The caller: decode what is on the wire, encode what was decoded. *)

Init ==
  \E t \in Types : \E inp \in InputsOf(t) :
    /\ ty = inp.ty
    /\ input = inp
    /\ steps = 0
    /\ prevJson = Nil
    /\ prevValue = Nil
    /\ peer = Nil
    /\ IF inp.from = "wire"
       THEN json = inp.x /\ value = Nil /\ pc = "wire"
       ELSE json = Nil /\ value = Ok(inp.x) /\ pc = "value"

\* serde_json::from_str::<T>: the wire value is decoded as the type ty
Decode ==
  /\ pc = "wire"
  /\ steps < MaxSteps
  /\ value' = Deserialize(ty, json)
  /\ pc' = IF IsOk(value') THEN "value" ELSE "failed"
  /\ prevValue' = value
  /\ steps' = steps + 1
  /\ UNCHANGED <<ty, input, json, prevJson, peer>>

\* serde_json::to_string: the decoded value is encoded
Encode ==
  /\ pc = "value"
  /\ steps < MaxSteps
  /\ json' = Serialize(ty, value.v)
  /\ pc' = "wire"
  /\ prevJson' = json
  /\ steps' = steps + 1
  /\ UNCHANGED <<ty, input, value, prevValue, peer>>

Next ==
  Decode \/ Encode

Spec ==
  Init /\ [][Next]_vars

----------------------------------------------------------------------------
(* Two callers, each with a request or response of its own; their steps    *)
(* interleave in any order.  The codecs are functions of their arguments   *)
(* and the crate holds no static, global or interior-mutable state, so a   *)
(* step reads and writes the state of the caller that takes it only.       *)

\* the instances the two callers hold: the examples, and requests and
\* responses with an extension payload, on the wire and decoded
PairInputs ==
  {inp \in Scenarios : inp.ty.name \in {"BidRequest", "BidResponse"}}
    \cup {FromWire(TStruct(s), WithKey(MinWire(TStruct(s)), "ext", e)) :
            s \in {"BidRequest", "BidResponse"}, e \in ExtPayloads}
    \cup {FromValue(TStruct(s), WithField(MinVal(TStruct(s)), "ext", Some(VValue(e)))) :
            s \in {"BidRequest", "BidResponse"}, e \in ExtPayloads}

InitPair ==
  \E a \in PairInputs : \E b \in PairInputs :
    /\ ty = a.ty
    /\ input = a
    /\ steps = 0
    /\ prevJson = Nil
    /\ prevValue = Nil
    /\ IF a.from = "wire"
       THEN json = a.x /\ value = Nil /\ pc = "wire"
       ELSE json = Nil /\ value = Ok(a.x) /\ pc = "value"
    /\ peer = [ty |-> b.ty, input |-> b, steps |-> 0,
               json |-> IF b.from = "wire" THEN b.x ELSE Nil,
               value |-> IF b.from = "wire" THEN Nil ELSE Ok(b.x),
               pc |-> IF b.from = "wire" THEN "wire" ELSE "value"]

\* the other caller's serde_json::from_str::<T>
PeerDecode ==
  /\ peer.pc = "wire"
  /\ peer.steps < MaxSteps
  /\ peer' = LET r == Deserialize(peer.ty, peer.json)
             IN [peer EXCEPT !.value = r,
                             !.pc = IF IsOk(r) THEN "value" ELSE "failed",
                             !.steps = peer.steps + 1]
  /\ UNCHANGED <<ty, input, json, value, pc, steps, prevJson, prevValue>>

\* the other caller's encode writes into a buffer both callers use
PeerEncode_shared ==
  /\ peer.pc = "value"
  /\ peer.steps < MaxSteps
  /\ peer' = [peer EXCEPT !.json = Serialize(peer.ty, peer.value.v),
                          !.pc = "wire",
                          !.steps = peer.steps + 1]
  /\ json' = Serialize(peer.ty, peer.value.v)
  /\ UNCHANGED <<ty, input, value, pc, steps, prevJson, prevValue>>

\* the other caller's serde_json::to_string
PeerEncode ==
  /\ peer.pc = "value"
  /\ peer.steps < MaxSteps
  /\ peer' = [peer EXCEPT !.json = Serialize(peer.ty, peer.value.v),
                          !.pc = "wire",
                          !.steps = peer.steps + 1]
  /\ UNCHANGED <<ty, input, json, value, pc, steps, prevJson, prevValue>>

NextPair ==
  Decode \/ Encode \/ PeerDecode \/ PeerEncode

ConcurrentSpec ==
  InitPair /\ [][NextPair]_vars

----------------------------------------------------------------------------
(* Vocabulary of the properties. *)

\* the input was a wire value and has been decoded once
DecodedOnce ==
  input.from = "wire" /\ steps = 1

\* the input was a wire value, was decoded and the result encoded again
ReEncoded ==
  input.from = "wire" /\ steps = 2 /\ pc = "wire"

\* the input was a typed value and has been encoded once
EncodedOnce ==
  input.from = "value" /\ steps = 1

\* the input was a typed value, was encoded and the result decoded again
ReDecoded ==
  input.from = "value" /\ steps = 2

WireIsInt ==
  input.from = "wire" /\ input.x.t = "int"

AuctionTypes ==
  {TAuctionType, TFlatAuctionType}

\* the three variants of either revision, by position
NamedFirst(t) ==
  IF t = TAuctionType THEN FirstPrice ELSE flat_FirstPrice

NamedSecond(t) ==
  IF t = TAuctionType THEN SecondPrice ELSE flat_SecondPricePlus

Open(t, u) ==
  IF t = TAuctionType THEN FixedPrice(u) ELSE flat_ExchangeSpecific(u)

\* w is the wire integer of one of the vocabulary's constants
IsDiscriminant(e, w) ==
  FitsI32(w) /\ \E c \in Variants(e) : c.value = I32Of(w)

OptionalFields(name) ==
  FieldNames(name) \ RequiredFields(name)

OptionalBoolFields(name) ==
  {f \in FieldNames(name) : FieldOf(name, f).ty = TOption(TBool)}

----------------------------------------------------------------------------
(* C1: Bool decode maps wire integer 0 to False and every other wire
   integer to True, and returns a Bool for every integer input. *)
C1_BoolDecodeTotal ==
  (ty = TBool /\ WireIsInt /\ DecodedOnce)
    => value = (IF input.x.v = W(0) THEN Ok(False) ELSE Ok(True))

(* C2: AuctionType decode maps 1 to first-price, 2 to second-price and
   every other integer n to the exchange-specific variant carrying n; no
   integer is rejected. *)
C2_AuctionDecodeOpen ==
  (ty \in AuctionTypes /\ WireIsInt /\ DecodedOnce)
    => value = (CASE input.x.v = W(1) -> Ok(NamedFirst(ty))
                  [] input.x.v = W(2) -> Ok(NamedSecond(ty))
                  [] OTHER -> Ok(Open(ty, U32Of(input.x.v))))
       /\ (input.x.v \notin {W(1), W(2)} => WOfU32(value.v.n) = input.x.v)

(* C3: for every wire integer n outside {1,2}, decoding n as an auction
   type and encoding the result gives n again; a BidRequest whose `at` is
   n re-encodes with "at": n. *)
C3_AuctionWireRoundTrip ==
  /\ (ty = TAuctionType /\ WireIsInt /\ input.x.v \notin {W(1), W(2)})
       => /\ DecodedOnce => IsOk(value)
          /\ ReEncoded => json = input.x
  /\ (ty = TStruct("BidRequest") /\ input.from = "wire" /\ HasKey(input.x, "at")
        /\ input.x.v["at"].t = "int" /\ input.x.v["at"].v \notin {W(1), W(2)})
       => /\ DecodedOnce => IsOk(value)
          /\ ReEncoded => HasKey(json, "at") /\ json.v["at"] = input.x.v["at"]

(* C4: decoding an integer that is not the wire integer of a constant of a
   closed vocabulary fails and yields no constant; the same integer decoded
   as an auction type does not fail. *)
C4_ClosedEnumRejection ==
  /\ (ty.k = "Enum" /\ WireIsInt /\ DecodedOnce /\ ~IsDiscriminant(ty.name, input.x.v))
       => ~IsOk(value)
  /\ (ty = TAuctionType /\ WireIsInt /\ DecodedOnce
        /\ \E e \in EnumNames : ~IsDiscriminant(e, input.x.v))
       => IsOk(value)

(* C5: encoding an object omits the key of every absent optional field
   (it is never written as null) and writes the key of every present one,
   falsy values included. *)
C5_OptionalOmission ==
  (ty.k = "Struct" /\ EncodedOnce)
    => \A f \in OptionalFields(ty.name) :
         (input.x.v[f] = None) <=> ~HasKey(json, f)

(* C6: decoding an object whose wire form lacks an optional field leaves
   that field None, never a default value of its type. *)
C6_AbsentDecodesToNone ==
  (ty.k = "Struct" /\ DecodedOnce /\ input.x.t = "obj" /\ IsOk(value))
    => \A f \in OptionalFields(ty.name) :
         ~HasKey(input.x, f) => value.v.v[f] = None

\* a BidRequest without `at` has been decoded and has no auction type
C6_Witness ==
  /\ ty = TStruct("BidRequest") /\ DecodedOnce /\ IsOk(value)
  /\ ~HasKey(input.x, "at") /\ HasKey(input.x, "tmax")
  /\ value.v.v["at"] = None

RECURSIVE Canonical(_)
\* no auction type is the open variant carrying 1 or 2 and no optional
\* extension slot holds JSON null
Canonical(x) ==
  CASE x.t = "AuctionType" -> ~(x.v = "FixedPrice" /\ x.n \in {U32(0, 1), U32(0, 2)})
    [] x.t = "flat::AuctionType" ->
         ~(x.v = "ExchangeSpecific" /\ x.n \in {U32(0, 1), U32(0, 2)})
    [] x.t = "Some" -> x.v # VValue(JNull) /\ Canonical(x.v)
    [] x.t = "Vec" -> \A i \in DOMAIN x.v : Canonical(x.v[i])
    [] x.t = "Struct" -> \A f \in DOMAIN x.v : Canonical(x.v[f])
    [] OTHER -> TRUE

(* C7 as stated: for every object type and every value x of it, with each
   optional field present or absent, decode(encode(x)) = x. *)
C7_ObjectRoundTrip ==
  (ty.k = "Struct" /\ ReDecoded) => value = Ok(input.x)

(* C7 as amended: decode(encode(x)) = x for every object x in which no
   auction-type field is the exchange-specific variant carrying 1 or 2 and
   no extension slot holds JSON null. *)
C7_CanonicalObjectRoundTrip ==
  (ty.k = "Struct" /\ ReDecoded /\ Canonical(input.x)) => value = Ok(input.x)

\* a BidRequest with every optional field present has made the round trip
C7_Witness ==
  /\ ty = TStruct("BidRequest") /\ ReDecoded
  /\ input.x = AllVal("BidRequest") /\ Canonical(input.x)
  /\ value = Ok(input.x)

(* C8 as stated: for every auction-type value x, the open variant with
   every n it can carry included, decode(encode(x)) = x. *)
C8_AuctionValueRoundTrip ==
  (ty \in AuctionTypes /\ ReDecoded) => value = Ok(input.x)

(* C8 as amended: decode(encode(x)) = x for every auction-type value x
   other than the open variant carrying 1 or 2, which come back as the
   first-price and the second-price variant. *)
C8_AuctionValueRoundTripCanonical ==
  (ty \in AuctionTypes /\ ReDecoded)
    => value = (CASE input.x = Open(ty, U32(0, 1)) -> Ok(NamedFirst(ty))
                  [] input.x = Open(ty, U32(0, 2)) -> Ok(NamedSecond(ty))
                  [] OTHER -> Ok(input.x))

\* the open variant carrying 512 has made the round trip
C8_Witness ==
  /\ ty = TAuctionType /\ ReDecoded
  /\ input.x = FixedPrice(U32(0, 512))
  /\ value = Ok(input.x)

(* C9: Bool encode writes 0 for False and 1 for True, so a Bool decoded
   from a nonzero wire integer re-encodes as 1 and one decoded from 0
   re-encodes as 0, alone and as a field of an object. *)
C9_BoolEncode ==
  /\ (ty = TBool /\ EncodedOnce)
       => json = (IF input.x = True THEN JInt(W(1)) ELSE JInt(W(0)))
  /\ (ty = TBool /\ WireIsInt /\ ReEncoded)
       => json = (IF input.x.v = W(0) THEN JInt(W(0)) ELSE JInt(W(1)))
  /\ (ty.k = "Struct" /\ ReEncoded /\ input.x.t = "obj")
       => \A f \in OptionalBoolFields(ty.name) :
            (HasKey(input.x, f) /\ input.x.v[f].t = "int")
              => /\ HasKey(json, f)
                 /\ json.v[f] = (IF input.x.v[f].v = W(0) THEN JInt(W(0)) ELSE JInt(W(1)))

\* an Imp with "instl": 5 has been decoded and re-encoded with "instl": 1
C9_Witness ==
  /\ ty = TStruct("bid_request::Imp") /\ ReEncoded
  /\ HasKey(input.x, "instl") /\ input.x.v["instl"] = JInt(W(5))
  /\ HasKey(json, "instl") /\ json.v["instl"] = JInt(W(1))

(* C10: for every optional Bool field, absent, false and true encode to
   three different wire forms (no key, 0, 1), and those three wire forms
   decode to three different values (None, Some(False), Some(True)). *)
C10_ThreeStates ==
  /\ (ty.k = "Struct" /\ EncodedOnce)
       => \A f \in OptionalBoolFields(ty.name) :
            CASE input.x.v[f] = None -> ~HasKey(json, f)
              [] input.x.v[f] = Some(False) -> HasKey(json, f) /\ json.v[f] = JInt(W(0))
              [] input.x.v[f] = Some(True) -> HasKey(json, f) /\ json.v[f] = JInt(W(1))
  /\ (ty.k = "Struct" /\ DecodedOnce /\ input.x.t = "obj" /\ IsOk(value))
       => \A f \in OptionalBoolFields(ty.name) :
            IF ~HasKey(input.x, f) THEN value.v.v[f] = None
            ELSE /\ input.x.v[f] = JInt(W(0)) => value.v.v[f] = Some(False)
                 /\ input.x.v[f] = JInt(W(1)) => value.v.v[f] = Some(True)

\* a BidRequest whose test flag is false has been encoded with "test": 0
C10_Witness ==
  /\ ty = TStruct("BidRequest") /\ EncodedOnce
  /\ input.x.v["test"] = Some(False)
  /\ HasKey(json, "test") /\ json.v["test"] = JInt(W(0))


----------------------------------------------------------------------------
(* Vocabulary of the decode-error properties. *)

RECURSIVE JsonKinds(_)
\* the JSON types the wire form of a declared type has; null stands for an
\* absent optional field
JsonKinds(t) ==
  CASE t.k = "String" -> {"str"}
    [] t.k = "f64" -> {"int", "float"}
    [] t.k = "Vec" -> {"arr"}
    [] t.k = "Struct" -> {"obj"}
    [] t.k = "Value" -> {"null", "bool", "int", "float", "str", "arr", "obj"}
    [] t.k = "Option" -> JsonKinds(t.of) \cup {"null"}
    [] OTHER -> {"int"}

\* the required fields the protocol names
NamedRequired ==
  {<<"BidRequest", "id">>, <<"BidRequest", "imp">>, <<"BidResponse", "id">>,
   <<"bid_request::Imp", "id">>, <<"bid_request::imp::pmp::Deal", "id">>,
   <<"bid_response::SeatBid", "bid">>, <<"bid_response::seat_bid::Bid", "id">>,
   <<"bid_response::seat_bid::Bid", "impid">>, <<"bid_response::seat_bid::Bid", "price">>}

\* the type of a field once present
Bare(t) ==
  IF t.k = "Option" THEN t.of ELSE t

\* a BidRequest whose imp[0].banner.battr holds an integer outside
\* CreativeAttribute
BadBattr ==
  WithKey(MinWire(TStruct("BidRequest")), "imp",
    JArr(<<WithKey(MinWire(TStruct("bid_request::Imp")), "banner",
             WithKey(MinWire(TStruct("bid_request::imp::Banner")), "battr",
               JArr(<<JInt(WOfI32(MaxVariant("CreativeAttribute").value + 1))>>)))>>))

\* a BidRequest whose device.dnt is not an integer
BadDnt ==
  WithKey(MinWire(TStruct("BidRequest")), "device",
    WithKey(MinWire(TStruct("bid_request::Device")), "dnt", JBool(TRUE)))

RECURSIVE Declared(_, _)
\* the wire value j of type t without the keys its objects do not declare
Declared(t, j) ==
  CASE t.k = "Option" /\ j.t # "null" -> Declared(t.of, j)
    [] t.k = "Vec" /\ j.t = "arr" -> JArr([i \in DOMAIN j.v |-> Declared(t.of, j.v[i])])
    [] t.k = "Struct" /\ j.t = "obj" ->
         JObj([f \in DOMAIN j.v \cap FieldNames(t.name) |->
                 Declared(FieldOf(t.name, f).ty, j.v[f])])
    [] OTHER -> j

----------------------------------------------------------------------------
(* C11: decoding an object fails, and yields no value, when a required key
   is missing (BidRequest.id and imp, BidResponse.id, Imp.id, Deal.id,
   SeatBid.bid, Bid.id, impid and price among them) or when the value under
   a declared key has a JSON type other than the one the field declares. *)
C11_DecodeFormatError ==
  (ty.k = "Struct" /\ DecodedOnce /\ input.x.t = "obj")
    => /\ \A p \in NamedRequired :
            (p[1] = ty.name /\ ~HasKey(input.x, p[2])) => ~IsOk(value)
       /\ \A f \in RequiredFields(ty.name) : ~HasKey(input.x, f) => ~IsOk(value)
       /\ \A f \in FieldNames(ty.name) :
            (HasKey(input.x, f) /\ input.x.v[f].t \notin JsonKinds(FieldOf(ty.name, f).ty))
              => ~IsOk(value)

(* C12: a decode error in a field, at any depth, fails the decode of the
   enclosing object: decode returns an error or an object with every
   declared field, in which each field present on the wire holds the value
   it decodes to alone, never None or a default in place of a failed one. *)
C12_ErrorPropagation ==
  /\ (ty.k = "Struct" /\ DecodedOnce /\ input.x.t = "obj")
       => /\ value.t \in {"Ok", "Err"}
          /\ IsOk(value) => value.v.t = "Struct" /\ DOMAIN value.v.v = FieldNames(ty.name)
          /\ \A f \in FieldNames(ty.name) :
               (HasKey(input.x, f) /\ input.x.v[f].t # "null")
                 => LET fty == FieldOf(ty.name, f).ty
                        r == Deserialize(Bare(fty), input.x.v[f])
                    IN IF IsOk(r)
                       THEN IsOk(value)
                              => value.v.v[f] = (IF fty.k = "Option" THEN Some(r.v) ELSE r.v)
                       ELSE ~IsOk(value)
  /\ (ty = TStruct("BidRequest") /\ DecodedOnce /\ input.x \in {BadBattr, BadDnt})
       => ~IsOk(value) /\ pc = "failed"

\* the BidRequest with the out-of-range battr has failed to decode
C12_Witness ==
  /\ ty = TStruct("BidRequest") /\ DecodedOnce
  /\ input.x = BadBattr
  /\ ~IsOk(value) /\ pc = "failed"

(* C13: decoding an object that carries keys it does not declare, at any
   depth, gives what decoding the same object without those keys gives: it
   succeeds when that one does, with the same value in every field. *)
C13_UnknownFieldTolerance ==
  (ty.k = "Struct" /\ DecodedOnce /\ input.x.t = "obj"
     /\ Declared(ty, input.x) # input.x)
    => value = Deserialize(ty, Declared(ty, input.x))

\* an Imp inside a BidRequest carried an undeclared key and the request
\* decoded to the value of the plain request
C13_Witness ==
  /\ ty = TStruct("BidRequest") /\ DecodedOnce /\ IsOk(value)
  /\ HasKey(input.x, "imp") /\ input.x.v["imp"].t = "arr" /\ Len(input.x.v["imp"].v) = 1
  /\ input.x.v["imp"].v[1].t = "obj" /\ HasKey(input.x.v["imp"].v[1], "x_vendor")
  /\ value = Deserialize(ty, MinWire(ty))

(* C14: encoding a BidRequest, of either revision, writes the `id` key and
   the `imp` key, an empty impression array included, and encoding a
   BidResponse, Imp, Deal, SeatBid or Bid writes each of its required
   keys. *)
C14_RequiredEmitted ==
  (ty.k = "Struct" /\ EncodedOnce)
    => /\ ty.name \in {"BidRequest", "flat::BidRequest"}
            => HasKey(json, "id") /\ HasKey(json, "imp") /\ json.v["imp"].t = "arr"
       /\ \A p \in NamedRequired : p[1] = ty.name => HasKey(json, p[2])

----------------------------------------------------------------------------
(* C15: every constant of a closed vocabulary encodes to its declared
   discriminant (LossReason within 0..10, 100..104 and 200..213, StartDelay
   0, -1 and -2) and decodes back to itself, and no other constant of the
   vocabulary has its discriminant or its display name. *)
C15_VocabularyFidelity ==
  (ty.k = "Enum" /\ input.from = "value")
    => LET c == CHOOSE d \in Variants(ty.name) : d.name = input.x.v
       IN /\ EncodedOnce => json = JInt(WOfI32(c.value))
          /\ (EncodedOnce /\ ty.name = "StartDelay")
               => json \in {JInt(W(0)), JInt(WNeg(1)), JInt(WNeg(2))}
          /\ (EncodedOnce /\ ty.name = "LossReason")
               => json \in {JInt(W(n)) : n \in (0..10) \cup (100..104) \cup (200..213)}
          /\ ReDecoded => value = Ok(input.x)
          /\ EncodedOnce
               => \A d \in Variants(ty.name) :
                    d.name # c.name
                      => /\ JInt(WOfI32(d.value)) # json
                         /\ d.display # as_str_name(input.x)

\* the generic mid-roll start delay was written as -1 and read back
C15_Witness ==
  /\ ty = TEnum("StartDelay") /\ ReDecoded
  /\ input.x = VEnum("StartDelay", "GenericMidRoll")
  /\ json = JInt(WNeg(1))
  /\ value = Ok(input.x)
  /\ as_str_name(input.x) = "GENERIC_MID_ROLL"

----------------------------------------------------------------------------
\* the extension slots of an object
ExtSlots(name) ==
  {f \in FieldNames(name) : FieldOf(name, f).ty = TOption(TValue)}

(* C16 as stated: for every extension payload v, any JSON value, decode
   stores v in the slot as it is and re-encoding writes v again. *)
C16_ExtPassthrough ==
  (ty.k = "Struct" /\ input.from = "wire" /\ input.x.t = "obj")
    => \A f \in ExtSlots(ty.name) :
         HasKey(input.x, f)
           => /\ (DecodedOnce /\ IsOk(value))
                   => value.v.v[f] = Some(VValue(input.x.v[f]))
              /\ ReEncoded => HasKey(json, f) /\ json.v[f] = input.x.v[f]

(* C16 as amended: for every extension payload v other than JSON null,
   decode stores v in the slot as it is and re-encoding writes v again; a
   payload of null decodes as an absent slot and is not written. *)
C16_ExtPassthroughNonNull ==
  (ty.k = "Struct" /\ input.from = "wire" /\ input.x.t = "obj")
    => \A f \in ExtSlots(ty.name) :
         HasKey(input.x, f)
           => IF input.x.v[f] = JNull
              THEN /\ (DecodedOnce /\ IsOk(value)) => value.v.v[f] = None
                   /\ ReEncoded => ~HasKey(json, f)
              ELSE /\ (DecodedOnce /\ IsOk(value))
                        => value.v.v[f] = Some(VValue(input.x.v[f]))
                   /\ ReEncoded => HasKey(json, f) /\ json.v[f] = input.x.v[f]

\* an Imp whose ext is a nested object has been decoded and re-encoded with
\* the same ext
C16_Witness ==
  /\ ty = TStruct("bid_request::Imp") /\ ReEncoded
  /\ HasKey(input.x, "ext") /\ input.x.v["ext"].t = "obj"
  /\ DOMAIN input.x.v["ext"].v = {"100", "2000"}
  /\ HasKey(json, "ext") /\ json.v["ext"] = input.x.v["ext"]

----------------------------------------------------------------------------
\* {"id":"req-1","imp":[{"id":"1"}],"at":2}
MinimalRequest ==
  JObj(("id" :> JStr("req-1")) @@ ("imp" :> JArr(<<JObj("id" :> JStr("1"))>>))
         @@ ("at" :> JInt(W(2))))

(* C17: {"id":"req-1","imp":[{"id":"1"}],"at":2} decodes to a BidRequest
   with id "req-1", one Imp with id "1", second-price auction and every
   other field None; encoding it gives an object with exactly the keys id,
   imp and at, whose imp[0] has exactly the key id. *)
C17_MinimalBidRequest ==
  (ty = TStruct("BidRequest") /\ input.from = "wire" /\ input.x = MinimalRequest)
    => /\ DecodedOnce
            => value = Ok(WithField(WithField(WithField(MinVal(ty),
                            "id", VString("req-1")),
                            "imp", VVec(<<WithField(MinVal(TStruct("bid_request::Imp")),
                                                    "id", VString("1"))>>)),
                            "at", Some(SecondPrice)))
       /\ ReEncoded
            => /\ DOMAIN json.v = {"id", "imp", "at"}
               /\ Len(json.v["imp"].v) = 1
               /\ DOMAIN json.v["imp"].v[1].v = {"id"}
               /\ json = input.x

\* the minimal request has been decoded and written again
C17_Witness ==
  /\ ty = TStruct("BidRequest") /\ ReEncoded
  /\ input.x = MinimalRequest
  /\ value.v.v["at"] = Some(SecondPrice)
  /\ json = MinimalRequest

----------------------------------------------------------------------------
\* {"id":"req-1","nbr":2}
NoBid ==
  JObj(("id" :> JStr("req-1")) @@ ("nbr" :> JInt(W(2))))

(* C18: {"id":"req-1","nbr":2} decodes to a BidResponse with seatbid None
   and nbr the invalid-request constant of NoBidReason; encoding a
   BidResponse without seatbid writes no `seatbid` key. *)
C18_NoBidResponse ==
  /\ (ty = TStruct("BidResponse") /\ input.from = "wire" /\ input.x = NoBid)
       => /\ DecodedOnce
               => /\ value = Ok(WithField(WithField(MinVal(ty),
                                  "id", VString("req-1")),
                                  "nbr", Some(VEnum("NoBidReason", "InvalidRequest"))))
                  /\ value.v.v["seatbid"] = None
                  /\ as_str_name(value.v.v["nbr"].v) = "INVALID_REQUEST"
          /\ ReEncoded => ~HasKey(json, "seatbid") /\ json = input.x
  /\ (ty = TStruct("BidResponse") /\ EncodedOnce /\ input.x.v["seatbid"] = None)
       => ~HasKey(json, "seatbid")

\* the no-bid response has been decoded and written again without seatbid
C18_Witness ==
  /\ ty = TStruct("BidResponse") /\ ReEncoded
  /\ input.x = NoBid
  /\ value.v.v["nbr"] = Some(VEnum("NoBidReason", "InvalidRequest"))
  /\ ~HasKey(json, "seatbid")

----------------------------------------------------------------------------
(* C19: every successfully decoded BidRequest has at least one Imp in
   `imp` and every successfully decoded NativeRequest has at least one
   Asset in `assets`. *)
C19_NonEmptySequences ==
  (DecodedOnce /\ IsOk(value))
    => /\ ty = TStruct("BidRequest") => Len(value.v.v["imp"].v) > 0
       /\ ty = TStruct("NativeRequest") => Len(value.v.v["assets"].v) > 0

(* C20: decoding a NativeRequest object without `assets`, or a
   NativeResponse object without `assets`, without `link`, or with a `link`
   object that has no `url`, fails, whatever other keys are present. *)
C20_RequiredNativeFields ==
  (DecodedOnce /\ input.x.t = "obj")
    => /\ (ty = TStruct("NativeRequest") /\ ~HasKey(input.x, "assets")) => ~IsOk(value)
       /\ (ty = TStruct("NativeResponse")
             /\ (\/ ~HasKey(input.x, "assets")
                 \/ ~HasKey(input.x, "link")
                 \/ (input.x.v["link"].t = "obj" /\ ~HasKey(input.x.v["link"], "url"))))
            => ~IsOk(value)

\* a NativeResponse with assetsurl and link but no assets has failed to decode
C20_Witness ==
  /\ ty = TStruct("NativeResponse") /\ DecodedOnce /\ input.x.t = "obj"
  /\ ~HasKey(input.x, "assets") /\ HasKey(input.x, "assetsurl") /\ HasKey(input.x, "link")
  /\ ~IsOk(value) /\ pc = "failed"

----------------------------------------------------------------------------
RECURSIVE Alone(_, _)
\* what a caller that runs alone holds after n steps on the instance inp
Alone(inp, n) ==
  IF n = 0
  THEN [json |-> IF inp.from = "wire" THEN inp.x ELSE Nil,
        value |-> IF inp.from = "wire" THEN Nil ELSE Ok(inp.x),
        pc |-> IF inp.from = "wire" THEN "wire" ELSE "value"]
  ELSE LET s == Alone(inp, n - 1)
       IN CASE s.pc = "wire" ->
                 LET r == Deserialize(inp.ty, s.json)
                 IN [s EXCEPT !.value = r,
                              !.pc = IF IsOk(r) THEN "value" ELSE "failed"]
            [] s.pc = "value" ->
                 [s EXCEPT !.json = Serialize(inp.ty, s.value.v), !.pc = "wire"]
            [] OTHER -> s

(* C21: when two callers decode and encode two different requests or
   responses with their steps interleaved in any order, each caller holds,
   after each of its steps, what it holds after the same steps when it runs
   alone: neither instance's fields or ext payload show in the other's
   results. *)
C21_InstanceIndependence ==
  /\ [json |-> json, value |-> value, pc |-> pc] = Alone(input, steps)
  /\ [json |-> peer.json, value |-> peer.value, pc |-> peer.pc]
       = Alone(peer.input, peer.steps)

\* both callers have decoded and encoded again, each a request with an ext
\* payload of its own, and each holds its own payload
C21_Witness ==
  /\ ReEncoded /\ peer.input.from = "wire" /\ peer.steps = 2 /\ peer.pc = "wire"
  /\ ty = TStruct("BidRequest") /\ peer.ty = TStruct("BidRequest")
  /\ HasKey(input.x, "ext") /\ HasKey(peer.input.x, "ext")
  /\ input.x.v["ext"] # peer.input.x.v["ext"]
  /\ json.v["ext"] = input.x.v["ext"]
  /\ peer.json.v["ext"] = peer.input.x.v["ext"]

----------------------------------------------------------------------------
\* the last step was a decode and it succeeded
Decoded ==
  pc = "value" /\ steps > 0

(* C22: no value produced by an AuctionType decode, alone or as the `at` of
   a request, is the exchange-specific variant carrying 1 or 2; of the
   decoded values only the first named variant is written as 1 and only
   the second as 2. *)
C22_CanonicalDecode ==
  Decoded
    => /\ ty \in AuctionTypes
            => /\ value.v \notin {Open(ty, U32(0, 1)), Open(ty, U32(0, 2))}
               /\ Serialize(ty, value.v) = JInt(W(1)) <=> value.v = NamedFirst(ty)
               /\ Serialize(ty, value.v) = JInt(W(2)) <=> value.v = NamedSecond(ty)
       /\ ty = TStruct("BidRequest")
            => value.v.v["at"] \notin {Some(FixedPrice(U32(0, 1))), Some(FixedPrice(U32(0, 2)))}
       /\ ty = TStruct("flat::BidRequest")
            => value.v.v["at"] \notin {flat_ExchangeSpecific(U32(0, 1)),
                                       flat_ExchangeSpecific(U32(0, 2))}

\* the open variant carrying 1 was encoded and has come back as first price
C22_Witness ==
  /\ ty = TAuctionType /\ ReDecoded
  /\ input.x = FixedPrice(U32(0, 1))
  /\ value = Ok(FirstPrice)

----------------------------------------------------------------------------
(* C23: a wire integer outside 0..255 is refused by the Bool codec and a
   wire integer outside 0..2^32-1 by the AuctionType codecs, negative ones
   included; none is reduced modulo the carrier's width. *)
C23_NoTruncation ==
  (DecodedOnce /\ WireIsInt)
    => /\ (ty = TBool /\ ~FitsU8(input.x.v)) => value = Err("invalid value")
       /\ (ty \in AuctionTypes /\ ~FitsU32(input.x.v)) => value = Err("invalid value")

\* 256 was handed to the Bool codec and refused
C23_Witness ==
  /\ ty = TBool /\ DecodedOnce
  /\ input.x = JInt(W(256))
  /\ value = Err("invalid value") /\ pc = "failed"

----------------------------------------------------------------------------
\* the nested-revision value that corresponds to a flat-revision auction type
NestedAuction(a) ==
  CASE a.v = "FirstPrice" -> FirstPrice
    [] a.v = "SecondPricePlus" -> SecondPrice
    [] a.v = "ExchangeSpecific" -> FixedPrice(a.n)

\* the nested-revision request with the fields of the flat-revision request
\* x, which has its imp present
NestedRequest(x) ==
  VStruct("BidRequest",
    [f \in DOMAIN x.v |->
       CASE f = "imp" -> x.v[f].v
         [] f = "at" -> Some(NestedAuction(x.v[f]))
         [] f = "app" -> IF x.v[f] = None THEN None
                         ELSE Some(VStruct("bid_request::App", x.v[f].v.v))
         [] OTHER -> x.v[f]])

(* C24: every wire object that the flat BidRequest (bid_request.rs) decodes
   successfully is decoded successfully by the nested BidRequest
   (openrtb.rs) too, with equal values for id, imp, at and every other
   shared field. *)
C24_NestedGeneralizesFlat ==
  (ty = TStruct("flat::BidRequest") /\ DecodedOnce /\ input.x.t = "obj" /\ IsOk(value))
    => /\ IsOk(Deserialize(TStruct("BidRequest"), input.x))
       /\ value.v.v["imp"] # None
       /\ Deserialize(TStruct("BidRequest"), input.x).v = NestedRequest(value.v)

----------------------------------------------------------------------------
\* the optional keys that the wire object carries with the value null
NullKeys ==
  IF ty.k = "Struct" /\ input.from = "wire" /\ input.x.t = "obj"
  THEN {f \in OptionalFields(ty.name) \cap DOMAIN input.x.v : input.x.v[f] = JNull}
  ELSE {}

(* C25: an optional field whose wire value is an explicit null (`ext`
   included) decodes to the same not-present state as an omitted key, and
   re-encoding the decoded object does not emit that key. *)
C25_NullEqualsAbsent ==
  \A f \in NullKeys :
    /\ (DecodedOnce /\ IsOk(value))
         => /\ value.v.v[f] = None
            /\ value = Deserialize(ty, WithoutKey(input.x, f))
    /\ ReEncoded => ~HasKey(json, f)

----------------------------------------------------------------------------
(* C26: for every wire value w that decodes successfully,
   encode(decode(encode(decode(w)))) = encode(decode(w)): what one decode
   and encode pass writes decodes again, and the second pass writes the
   same value. *)
C26_NormalizationIdempotent ==
  (input.from = "wire" /\ steps >= 3)
    => /\ pc # "failed"
       /\ pc = "wire" => json = prevJson

\* a Regs object with coppa 5 has gone through two passes: the first wrote
\* coppa 1 and the second wrote the same object again
C26_Witness ==
  /\ ty = TStruct("bid_request::Regs") /\ input.from = "wire" /\ steps = 4
  /\ input.x = JObj("coppa" :> JInt(W(5)))
  /\ prevJson = JObj("coppa" :> JInt(W(1)))
  /\ json = prevJson

----------------------------------------------------------------------------
\* the wire object without the keys ks
WithoutKeys(o, ks) ==
  JObj([k \in DOMAIN o.v \ ks |-> o.v[k]])

(* C27: decode does not enforce the protocol's exclusivity rules: a
   BidRequest whose other keys decode is decoded with both `site` and `app`
   or with neither, and an Imp with any combination of banner, video, audio
   and native at once, provided each supplied object decodes by itself; the
   decoded object holds every supplied object and None for the others. *)
C27_NoExclusivity ==
  (DecodedOnce /\ input.x.t = "obj"
     /\ ty \in {TStruct("BidRequest"), TStruct("flat::BidRequest"), TStruct("bid_request::Imp")})
    => LET g == Groups(ty.name)
           sub(f) == Deserialize(FieldOf(ty.name, f).ty, input.x.v[f])
       IN (/\ IsOk(Deserialize(ty, WithoutKeys(input.x, g)))
           /\ \A f \in g \cap DOMAIN input.x.v : IsOk(sub(f)))
            => /\ IsOk(value)
               /\ \A f \in g : value.v.v[f] = (IF f \in DOMAIN input.x.v THEN sub(f).v ELSE None)

\* a request with both site and app has been decoded and holds both
C27_Witness ==
  /\ ty = TStruct("BidRequest") /\ DecodedOnce /\ IsOk(value)
  /\ HasKey(input.x, "site") /\ HasKey(input.x, "app")
  /\ DOMAIN input.x.v = {"id", "imp", "site", "app"}
  /\ value.v.v["site"] = Some(Deserialize(TStruct("bid_request::Site"), input.x.v["site"]).v)
  /\ value.v.v["app"] = Some(Deserialize(TStruct("bid_request::App"), input.x.v["app"]).v)

----------------------------------------------------------------------------
\* the types that declare a deprecated field next to its replacement
WithDeprecated ==
  {TStruct("bid_request::imp::Banner"), TStruct("bid_request::imp::Video"),
   TStruct("bid_request::Content"), TStruct("NativeRequest")}

(* C28: Banner.wmax/hmax/wmin/hmin, Video.protocol, Content.videoquality
   and NativeRequest.layout/adunit decode and encode as independent
   optional fields: the decoded value of a deprecated field and of its
   replacement (format, protocols, prodq, plcmttype/context) is the decode
   of its own wire value whatever the other holds, and each is written
   from its own value. *)
C28_DeprecatedIndependent ==
  (ty \in WithDeprecated)
    => LET g == Groups(ty.name)
           fty(f) == FieldOf(ty.name, f).ty
       IN /\ (DecodedOnce /\ input.x.t = "obj" /\ IsOk(value))
               => \A f \in g :
                    value.v.v[f] = (IF f \in DOMAIN input.x.v
                                    THEN Deserialize(fty(f), input.x.v[f]).v
                                    ELSE None)
          /\ (pc = "wire" /\ steps > 0)
               => \A f \in g :
                    /\ HasKey(json, f) <=> value.v.v[f] # None
                    /\ HasKey(json, f) => json.v[f] = Serialize(fty(f), value.v.v[f])

\* a Video with the deprecated protocol and another protocol in protocols
\* has been decoded: each field holds its own value
C28_Witness ==
  /\ ty = TStruct("bid_request::imp::Video") /\ DecodedOnce /\ IsOk(value)
  /\ HasKey(input.x, "protocol") /\ HasKey(input.x, "protocols")
  /\ value.v.v["protocol"] # None /\ value.v.v["protocols"] # None
  /\ Len(value.v.v["protocols"].v.v) = 1
  /\ value.v.v["protocols"].v.v[1] # value.v.v["protocol"].v

----------------------------------------------------------------------------
RECURSIVE Keys(_)
\* the keys of the JSON value j, at any depth
Keys(j) ==
  CASE j.t = "obj" -> DOMAIN j.v \cup UNION {Keys(j.v[k]) : k \in DOMAIN j.v}
    [] j.t = "arr" -> UNION {Keys(j.v[i]) : i \in DOMAIN j.v}
    [] OTHER -> {}

(* C29: re-encoding a decoded object writes only keys that are declared
   fields of its type, at every depth; a wire key that is neither a
   declared field nor inside the content of an `ext` does not appear
   anywhere in encode(decode(w)). *)
C29_UnknownKeysDropped ==
  (ty.k = "Struct" /\ ReEncoded /\ input.x.t = "obj"
     /\ Declared(ty, input.x) # input.x)
    => /\ Declared(ty, json) = json
       /\ (Keys(input.x) \ Keys(Declared(ty, input.x))) \cap Keys(json) = {}

\* a BidRequest that carried the undeclared key x_vendor has been decoded
\* and written again without it
C29_Witness ==
  /\ ty = TStruct("BidRequest") /\ ReEncoded
  /\ HasKey(input.x, "x_vendor") /\ ~HasKey(json, "x_vendor")
  /\ json = MinWire(ty)

----------------------------------------------------------------------------
(* C30: on every wire value the AuctionType codec of bid_request.rs and the
   one of openrtb.rs both fail or decode to corresponding variants
   (FirstPrice/FirstPrice, SecondPricePlus/SecondPrice,
   ExchangeSpecific(n)/FixedPrice(n)); corresponding values encode to the
   same wire integer; and both take an integer of the carrier other than 1
   and 2 as the open variant carrying it. *)
C30_CodecsEquivalent ==
  (ty = TFlatAuctionType)
    => /\ DecodedOnce
            => LET n == AuctionType_deserialize(input.x)
               IN /\ IsOk(value) <=> IsOk(n)
                  /\ IsOk(value) => n.v = NestedAuction(value.v)
                  /\ (WireIsInt /\ FitsU32(input.x.v) /\ input.x.v \notin {W(1), W(2)})
                       => /\ value = Ok(flat_ExchangeSpecific(U32Of(input.x.v)))
                          /\ n = Ok(FixedPrice(U32Of(input.x.v)))
       /\ (pc = "wire" /\ steps > 0)
            => json = AuctionType_serialize(NestedAuction(value.v))

\* 512 was decoded by the flat codec as the open variant, as the nested
\* codec decodes it
C30_Witness ==
  /\ ty = TFlatAuctionType /\ DecodedOnce
  /\ input.x = JInt(W(512))
  /\ value = Ok(flat_ExchangeSpecific(U32(0, 512)))
  /\ AuctionType_deserialize(input.x) = Ok(FixedPrice(U32(0, 512)))
====
